---------------------------- MODULE Spec2Model ----------------------------
(***************************************************************************)
(* A model of libESMTP's external API (smtp-api.c): the session ->         *)
(* message -> recipient ownership graph, its option setters, the hand-off  *)
(* to the protocol engine and the teardown routine.                        *)
(*                                                                         *)
(* Memory is modelled at the level of allocations: an address names one    *)
(* block returned by malloc/strdup.  The structures come from one arena,   *)
(* whose addresses are handed out in increasing order and never reused;    *)
(* the strings come from another, which hands out the lowest address that  *)
(* is neither allocated nor still stored in some field.  An address held   *)
(* in a field and not in `live' is therefore a dangling pointer.           *)
(***************************************************************************)
EXTENDS Integers, Sequences, FiniteSets, TLC

(* ------------------------------ bounds --------------------------------- *)
MaxStructs == 4       \* structures one run may allocate
MaxStrings == 3       \* strings that may be allocated at one time
MaxMessages == 2      \* messages per session
MaxRecipients == 2    \* recipients per message
MaxSessions == 1      \* sessions the application creates
MaxExtMessages == 1   \* messages, where every extension option is explored
MaxPeerSessions == 2  \* sessions, where two sessions are explored side by side

(* ----------------------------- constants ------------------------------- *)
NULL == 0
StructAddr == 1..MaxStructs
StringAddr == (MaxStructs + 1)..(MaxStructs + MaxStrings)

\* last-error values (set_error / set_errno), and the value before any error
SMTP_ERR_NONE == "SMTP_ERR_NONE"
SMTP_ERR_INVAL == "SMTP_ERR_INVAL"
ENOMEM == "ENOMEM"

\* capability bits of session->required_extensions; the bit mask is the set
\* of the bits that are 1, so that `|=' is set union
EXT_DSN == "EXT_DSN"
EXT_8BITMIME == "EXT_8BITMIME"
EXT_DELIVERBY == "EXT_DELIVERBY"

\* enumerators; the first of each enum is the value memset (0) leaves
Ret_NOTSET == "Ret_NOTSET"
Notify_NOTSET == "Notify_NOTSET"
E8bitmime_NOTSET == "E8bitmime_NOTSET"
By_NOTSET == "By_NOTSET"
By_NOTIFY == "By_NOTIFY"
By_RETURN == "By_RETURN"

VARIABLES
  sessions,     \* address -> struct smtp_session, for the live session blocks
  messages,     \* address -> struct smtp_message
  recipients,   \* address -> struct smtp_recipient
  strings,      \* address -> contents of a live string block
  live,         \* the set of allocated, not yet freed blocks
  brk,          \* the number of structures handed out so far
  bad_free,     \* addresses passed to free () while not live
  smtp_errno,   \* the library's last-error value
  call,         \* the last API call: its name, return value and callbacks made
  pc,           \* "run", or "crashed" once undefined behaviour stopped the process
  config        \* the build: which HAVE_ macros are defined

heapvars == <<strings, live, brk, bad_free>>
graphvars == <<sessions, messages, recipients>>
vars == <<sessions, messages, recipients, strings, live, brk, bad_free,
          smtp_errno, call, pc, config>>

(* --------------------------- struct layouts ---------------------------- *)
\* struct smtp_status as reset_status () leaves it
NoStatus == [code |-> 0, text |-> ""]

\* session->port is a service string where getaddrinfo is used and a port
\* number elsewhere; it is held as the pair of the two, one of them unused
NoPort == [service |-> <<>>, number |-> 0]

\* memset (session, 0, sizeof (struct smtp_session))
ZeroSession ==
  [host |-> NULL, port |-> NoPort, localhost |-> NULL,
   messages |-> NULL, end_messages |-> NULL,
   required_extensions |-> {},
   event_cb |-> NULL, event_cb_arg |-> NULL,
   monitor_cb |-> NULL, monitor_cb_arg |-> NULL, monitor_cb_headers |-> 0,
   mta_status |-> NoStatus, application_data |-> NULL]

\* memset (message, 0, sizeof (struct smtp_message))
ZeroMessage ==
  [session |-> NULL, next |-> NULL,
   reverse_path_mailbox |-> NULL,
   reverse_path_status |-> NoStatus, message_status |-> NoStatus,
   recipients |-> NULL, end_recipients |-> NULL,
   dsn_ret |-> Ret_NOTSET, dsn_envid |-> NULL,
   size_estimate |-> 0, e8bitmime |-> E8bitmime_NOTSET,
   by_time |-> 0, by_mode |-> By_NOTSET, by_trace |-> 0,
   cb |-> NULL, cb_arg |-> NULL, application_data |-> NULL]

\* memset (recipient, 0, sizeof (struct smtp_recipient))
ZeroRecipient ==
  [message |-> NULL, next |-> NULL, mailbox |-> NULL,
   status |-> NoStatus, complete |-> 0,
   dsn_notify |-> Notify_NOTSET,
   dsn_addrtype |-> NULL, dsn_orcpt |-> NULL,
   application_data |-> NULL]

(* ------------------------------- heap ---------------------------------- *)
\* malloc of a structure can succeed while the arena lasts; it may always fail
CanAlloc == brk < MaxStructs
NewBlock == brk + 1

\* the number of fields that hold the address a
Holders(a) ==
  Cardinality({s \in DOMAIN sessions : sessions[s].host = a})
    + Cardinality({s \in DOMAIN sessions : sessions[s].localhost = a})
    + Cardinality({m \in DOMAIN messages : messages[m].reverse_path_mailbox = a})
    + Cardinality({m \in DOMAIN messages : messages[m].dsn_envid = a})
    + Cardinality({r \in DOMAIN recipients : recipients[r].mailbox = a})
    + Cardinality({r \in DOMAIN recipients : recipients[r].dsn_addrtype = a})
    + Cardinality({r \in DOMAIN recipients : recipients[r].dsn_orcpt = a})

\* the string blocks that are not allocated once the blocks of `released'
\* have been freed, with `taken' allocated meanwhile
Unallocated(released, taken) == StringAddr \ ((live \ released) \cup taken)

\* ... those of them that a field still points to, the field that held a
\* released block and is about to be overwritten left aside: a freed block
\* stays in reach of the dangling pointer to it
StillHeld(released, taken) ==
  {a \in Unallocated(released, taken) :
     Holders(a) > IF a \in released THEN 1 ELSE 0}

\* strdup: the addresses it can return.  The allocator may hand out again a
\* block that a dangling pointer still designates, which then has two
\* holders, or a block that nothing points to; the blocks that nothing
\* points to are alike, and the lowest stands for them.
FreeStrings(released, taken) ==
  StillHeld(released, taken)
    \cup {a \in Unallocated(released, taken) \ StillHeld(released, taken) :
            \A b \in Unallocated(released, taken) \ StillHeld(released, taken) :
               a <= b}

\* free (p) for each p of the sequence ps in turn, starting from the live set
\* lv: the blocks still live afterwards
RECURSIVE LiveAfter(_, _)
LiveAfter(lv, ps) ==
  IF ps = <<>> THEN lv ELSE LiveAfter(lv \ {Head(ps)}, Tail(ps))

\* ... and the addresses that were not live when they were passed to free ()
\* (free (NULL) is a no-op)
RECURSIVE BadFrees(_, _)
BadFrees(lv, ps) ==
  IF ps = <<>> THEN {}
  ELSE (IF Head(ps) # NULL /\ Head(ps) \notin lv THEN {Head(ps)} ELSE {})
         \cup BadFrees(lv \ {Head(ps)}, Tail(ps))

\* the effect of a call's free () calls on the heap.  Freeing a block twice is
\* undefined: the allocator may abort the process or carry on.
Free(ps) ==
  /\ live' = LiveAfter(live, ps)
  /\ bad_free' = bad_free \cup BadFrees(live, ps)
  /\ strings' = [a \in DOMAIN strings \ {ps[i] : i \in DOMAIN ps} |-> strings[a]]
  /\ IF BadFrees(live, ps) = {} THEN pc' = pc ELSE pc' \in {"run", "crashed"}

(* ----------------------- the application's text ------------------------ *)
\* The strings the application passes in.  A `const char *' argument is NULL
\* or a pointer to one of these; a pointer to the i-th is written -i, which
\* keeps it apart from the heap's addresses.  Host specifications are
\* sequences of characters, because smtp_set_server looks inside them.
AppText ==
  << <<"h">>,                        \* -1  host only
     <<"h", ":", "2", "5">>,         \* -2  host and numeric service
     <<"h", ":", "s", "m", "t", "p">>, \* -3  host and a service name
     <<"h", ":", "x">>,              \* -4  host and an unknown service name
     <<"a", "b", "c">>,              \* -5  a mailbox, a host name, an envelope id
     <<"r", "f", "c", "8", "2", "2">> >> \* -6  an address type
Text(p) == AppText[-p]

HostportArgs == {NULL, -1, -2, -3, -4}
StringArgs == {NULL, -5}
AddrTypeArgs == {NULL, -6}

(* ------------------------- results of a call --------------------------- *)
\* what the application observes of a call: the handle it was made on and its
\* return value; the status
\* record a returned pointer leads to; the callbacks made, as the entities
\* (visited) and the mailboxes they were given; the blocks passed to free (),
\* in order; and the number of times the protocol engine was entered
Result(name, on, r) ==
  [op |-> name, on |-> on, ret |-> r, status |-> NoStatus, visited |-> <<>>,
   mailboxes |-> <<>>, freed |-> <<>>, engine |-> 0]

\* set_error (code) / set_errno (code), then return r
Fail(name, on, code, r) ==
  /\ smtp_errno' = code
  /\ call' = Result(name, on, r)

\* return r
Return(name, on, r) ==
  /\ UNCHANGED smtp_errno
  /\ call' = Result(name, on, r)

\* SMTPAPI_CHECK_ARGS (test, r) when the test fails
CheckArgsFail(name, on, r) ==
  /\ Fail(name, on, SMTP_ERR_INVAL, r)
  /\ UNCHANGED <<graphvars, heapvars, pc>>

\* strdup (NULL) is undefined.  In practice the process faults, which is this
\* outcome; a libc that tests its argument returns NULL, which is the outcome
\* of the caller's allocation-failure branch.
StrdupNull(name, on) ==
  /\ UNCHANGED <<graphvars, heapvars, smtp_errno>>
  /\ call' = Result(name, on, 0)
  /\ pc' = "crashed"

(* ------------------------------ lists ---------------------------------- *)
\* the messages reached from p through ->next
RECURSIVE MessageChain(_, _)
MessageChain(p, fuel) ==
  IF p = NULL \/ fuel = 0 \/ p \notin DOMAIN messages THEN <<>>
  ELSE <<p>> \o MessageChain(messages[p].next, fuel - 1)

\* the recipients reached from p through ->next
RECURSIVE RecipientChain(_, _)
RecipientChain(p, fuel) ==
  IF p = NULL \/ fuel = 0 \/ p \notin DOMAIN recipients THEN <<>>
  ELSE <<p>> \o RecipientChain(recipients[p].next, fuel - 1)

MessagesOf(session) == MessageChain(sessions[session].messages, MaxStructs)
RecipientsOf(message) == RecipientChain(messages[message].recipients, MaxStructs)

\* the handles the application holds: the entities it created and has not
\* destroyed, and NULL
SessionHandles == DOMAIN sessions \cup {NULL}
MessageHandles == DOMAIN messages \cup {NULL}
RecipientHandles == DOMAIN recipients \cup {NULL}

(* ------------------------------ Init ----------------------------------- *)
Builds == [HAVE_GETADDRINFO : BOOLEAN, HAVE_GETHOSTNAME : BOOLEAN]

\* the application has created no session yet
Init ==
  /\ sessions = <<>>
  /\ messages = <<>>
  /\ recipients = <<>>
  /\ strings = <<>>
  /\ live = {}
  /\ brk = 0
  /\ bad_free = {}
  /\ smtp_errno = SMTP_ERR_NONE
  /\ call = Result("none", NULL, 0)
  /\ pc = "run"
  /\ config \in Builds

(* ------------------------- Session operations -------------------------- *)
smtp_create_session ==
  /\ pc = "run"
  /\ \/ /\ CanAlloc
        /\ sessions' = (NewBlock :> ZeroSession) @@ sessions
        /\ live' = live \cup {NewBlock}
        /\ brk' = brk + 1
        /\ Return("smtp_create_session", NULL, NewBlock)
        /\ UNCHANGED <<messages, recipients, strings, bad_free, pc>>
     \/ /\ Fail("smtp_create_session", NULL, ENOMEM, 0)
        /\ UNCHANGED <<graphvars, heapvars, pc>>
  /\ UNCHANGED config

\* strchr (host, ':'): the index of the first ':', or 0
Strchr(str, c) ==
  IF \E i \in DOMAIN str : str[i] = c
  THEN CHOOSE i \in DOMAIN str : str[i] = c /\ \A j \in 1..(i - 1) : str[j] # c
  ELSE 0

Digits == <<"0", "1", "2", "3", "4", "5", "6", "7", "8", "9">>
isdigit(c) == \E d \in DOMAIN Digits : Digits[d] = c
DigitValue(c) == (CHOOSE d \in DOMAIN Digits : Digits[d] = c) - 1

\* strtol (service, NULL, 10) of a string of digits and what follows them
RECURSIVE strtol(_, _)
strtol(str, acc) ==
  IF str = <<>> \/ ~isdigit(Head(str)) THEN acc
  ELSE strtol(Tail(str), acc * 10 + DigitValue(Head(str)))

\* getservbyname (service, "tcp") and ntohs (servent->s_port): the platform's
\* service database, 0 for a name it does not hold
getservbyname(service) == IF service = <<"s", "m", "t", "p">> THEN 25 ELSE 0

smtp_set_server(session, hostport) ==
  /\ pc = "run"
  /\ IF session = NULL \/ hostport = NULL
     THEN CheckArgsFail("smtp_set_server", session, 0)
     ELSE
       LET text == Text(hostport)
           colon == Strchr(text, ":")
           host == IF colon = 0 THEN text ELSE SubSeq(text, 1, colon - 1)
           service == SubSeq(text, colon + 1, Len(text))
           numeric == service # <<>> /\ isdigit(Head(service))
           unknown == colon # 0 /\ ~numeric /\ getservbyname(service) = 0
           port ==
             IF config.HAVE_GETADDRINFO
             THEN [NoPort EXCEPT !.service =
                     IF colon = 0 THEN <<"5", "8", "7">> ELSE service]
             ELSE [NoPort EXCEPT !.number =
                     IF colon = 0 THEN 587
                     ELSE IF numeric THEN strtol(service, 0)
                     ELSE getservbyname(service)]
       IN \/ \* strdup fails
             /\ Fail("smtp_set_server", session, ENOMEM, 0)
             /\ UNCHANGED <<graphvars, heapvars, pc>>
          \/ \* the service name is unknown: free (host)
             \E dup \in FreeStrings({}, {}) :
             /\ ~config.HAVE_GETADDRINFO /\ unknown
             /\ smtp_errno' = SMTP_ERR_INVAL
             /\ call' = [Result("smtp_set_server", session, 0)
                           EXCEPT !.freed = <<dup>>]
             /\ UNCHANGED <<graphvars, heapvars, pc>>
          \/ \E dup \in FreeStrings({}, {}) :
             /\ config.HAVE_GETADDRINFO \/ ~unknown
             /\ strings' = (dup :> host) @@ strings
             /\ live' = live \cup {dup}
             /\ sessions' = [sessions EXCEPT ![session].host = dup,
                                              ![session].port = port]
             /\ Return("smtp_set_server", session, 1)
             /\ UNCHANGED <<messages, recipients, brk, bad_free, pc>>
  /\ UNCHANGED config

smtp_set_hostname(session, hostname) ==
  /\ pc = "run"
  /\ IF session = NULL \/ (~config.HAVE_GETHOSTNAME /\ hostname = NULL)
     THEN CheckArgsFail("smtp_set_hostname", session, 0)
     ELSE
       LET old == sessions[session].localhost
           freed == IF old # NULL THEN <<old>> ELSE <<>>
       IN \/ /\ hostname = NULL
             /\ Free(freed)
             /\ brk' = brk
             /\ sessions' = [sessions EXCEPT ![session].localhost = NULL]
             /\ UNCHANGED smtp_errno
             /\ call' = [Result("smtp_set_hostname", session, 1) EXCEPT !.freed = freed]
          \/ /\ hostname # NULL
             /\ Free(freed)
             /\ brk' = brk
             /\ sessions' = [sessions EXCEPT ![session].localhost = NULL]
             /\ smtp_errno' = ENOMEM
             /\ call' = [Result("smtp_set_hostname", session, 0) EXCEPT !.freed = freed]
          \/ \E dup \in FreeStrings({old}, {}) :
             /\ hostname # NULL
             /\ live' = (live \ {old}) \cup {dup}
             /\ strings' = (dup :> Text(hostname))
                             @@ [a \in DOMAIN strings \ {old} |-> strings[a]]
             /\ brk' = brk
             /\ sessions' = [sessions EXCEPT
                               ![session].localhost = dup]
             /\ bad_free' = bad_free \cup BadFrees(live, freed)
             /\ UNCHANGED <<smtp_errno, pc>>
             /\ call' = [Result("smtp_set_hostname", session, 1) EXCEPT !.freed = freed]
  /\ UNCHANGED <<messages, recipients, config>>

\* APPEND_LIST (session->messages, session->end_messages, message)
AppendMessage(session, message) ==
  LET s == sessions[session]
      linked == IF s.messages = NULL THEN messages
                ELSE [messages EXCEPT ![s.end_messages].next = message]
  IN /\ sessions' = [sessions EXCEPT
                        ![session].messages =
                           IF s.messages = NULL THEN message ELSE s.messages,
                        ![session].end_messages = message]
     /\ messages' = (message :> [ZeroMessage EXCEPT !.session = session,
                                                   !.next = NULL]) @@ linked

\* the message is appended and its session is left null
smtp_add_message_no_backlink(session) ==
  /\ pc = "run"
  /\ IF session = NULL
     THEN CheckArgsFail("smtp_add_message", session, NULL)
     ELSE
       \/ /\ Fail("smtp_add_message", session, ENOMEM, 0)
          /\ UNCHANGED <<graphvars, heapvars, pc>>
       \/ /\ CanAlloc /\ Len(MessagesOf(session)) < MaxMessages
          /\ sessions' = [sessions EXCEPT
                            ![session].messages =
                               IF @ = NULL THEN NewBlock ELSE @,
                            ![session].end_messages = NewBlock]
          /\ messages' = (NewBlock :> ZeroMessage)
                           @@ IF sessions[session].messages = NULL THEN messages
                              ELSE [messages EXCEPT
                                      ![sessions[session].end_messages].next =
                                          NewBlock]
          /\ live' = live \cup {NewBlock}
          /\ brk' = brk + 1
          /\ Return("smtp_add_message", session, NewBlock)
          /\ UNCHANGED <<recipients, strings, bad_free, pc>>
  /\ UNCHANGED config

smtp_add_message(session) ==
  /\ pc = "run"
  /\ IF session = NULL
     THEN CheckArgsFail("smtp_add_message", session, NULL)
     ELSE
       \/ /\ Fail("smtp_add_message", session, ENOMEM, 0)
          /\ UNCHANGED <<graphvars, heapvars, pc>>
       \/ /\ CanAlloc /\ Len(MessagesOf(session)) < MaxMessages
          /\ AppendMessage(session, NewBlock)
          /\ live' = live \cup {NewBlock}
          /\ brk' = brk + 1
          /\ Return("smtp_add_message", session, NewBlock)
          /\ UNCHANGED <<recipients, strings, bad_free, pc>>
  /\ UNCHANGED config

\* a loop that starts at the second message
smtp_enumerate_messages_from_second(session, cb) ==
  /\ pc = "run"
  /\ IF session = NULL \/ cb = NULL
     THEN CheckArgsFail("smtp_enumerate_messages", session, 0)
     ELSE
       /\ call' = [Result("smtp_enumerate_messages", session, 1)
                     EXCEPT !.visited =
                       IF MessagesOf(session) = <<>> THEN <<>>
                       ELSE Tail(MessagesOf(session))]
       /\ UNCHANGED <<graphvars, heapvars, pc, smtp_errno>>
  /\ UNCHANGED config

\* the callback is applied to each message from session->messages on
smtp_enumerate_messages(session, cb) ==
  /\ pc = "run"
  /\ IF session = NULL \/ cb = NULL
     THEN CheckArgsFail("smtp_enumerate_messages", session, 0)
     ELSE
       /\ call' = [Result("smtp_enumerate_messages", session, 1)
                     EXCEPT !.visited = MessagesOf(session)]
       /\ UNCHANGED <<graphvars, heapvars, pc, smtp_errno>>
  /\ UNCHANGED config

(* ------------------------- Message operations -------------------------- *)
smtp_message_transfer_status(message) ==
  /\ pc = "run"
  /\ IF message = NULL
     THEN CheckArgsFail("smtp_message_transfer_status", message, NULL)
     ELSE /\ call' = [Result("smtp_message_transfer_status", message, message)
                        EXCEPT !.status = messages[message].message_status]
          /\ UNCHANGED smtp_errno
          /\ UNCHANGED <<graphvars, heapvars, pc>>
  /\ UNCHANGED config

smtp_set_reverse_path(message, mailbox) ==
  /\ pc = "run"
  /\ IF message = NULL
     THEN CheckArgsFail("smtp_set_reverse_path", message, 0)
     ELSE
       LET old == messages[message].reverse_path_mailbox
           freed == IF old # NULL THEN <<old>> ELSE <<>>
       IN \/ /\ mailbox = NULL
             /\ Free(freed)
             /\ brk' = brk
             /\ messages' = [messages EXCEPT ![message].reverse_path_mailbox = NULL]
             /\ UNCHANGED smtp_errno
             /\ call' = [Result("smtp_set_reverse_path", message, 1) EXCEPT !.freed = freed]
          \/ /\ mailbox # NULL
             /\ Free(freed)
             /\ brk' = brk
             /\ messages' = [messages EXCEPT ![message].reverse_path_mailbox = NULL]
             /\ smtp_errno' = ENOMEM
             /\ call' = [Result("smtp_set_reverse_path", message, 0) EXCEPT !.freed = freed]
          \/ \E dup \in FreeStrings({old}, {}) :
             /\ mailbox # NULL
             /\ live' = (live \ {old}) \cup {dup}
             /\ strings' = (dup :> Text(mailbox))
                             @@ [a \in DOMAIN strings \ {old} |-> strings[a]]
             /\ brk' = brk
             /\ messages' = [messages EXCEPT
                               ![message].reverse_path_mailbox = dup]
             /\ bad_free' = bad_free \cup BadFrees(live, freed)
             /\ UNCHANGED <<smtp_errno, pc>>
             /\ call' = [Result("smtp_set_reverse_path", message, 1) EXCEPT !.freed = freed]
  /\ UNCHANGED <<sessions, recipients, config>>

smtp_reverse_path_status(message) ==
  /\ pc = "run"
  /\ IF message = NULL
     THEN CheckArgsFail("smtp_reverse_path_status", message, NULL)
     ELSE /\ call' = [Result("smtp_reverse_path_status", message, message)
                        EXCEPT !.status = messages[message].reverse_path_status]
          /\ UNCHANGED smtp_errno
          /\ UNCHANGED <<graphvars, heapvars, pc>>
  /\ UNCHANGED config

\* reset_status (status)
reset_status(status) == NoStatus

\* the transfer status alone is reset
smtp_message_reset_status_transfer_only(message) ==
  /\ pc = "run"
  /\ IF message = NULL
     THEN CheckArgsFail("smtp_message_reset_status", message, 0)
     ELSE /\ messages' =
               [messages EXCEPT ![message].message_status = reset_status(@)]
          /\ Return("smtp_message_reset_status", message, 1)
          /\ UNCHANGED <<sessions, recipients, heapvars, pc>>
  /\ UNCHANGED config

smtp_message_reset_status(message) ==
  /\ pc = "run"
  /\ IF message = NULL
     THEN CheckArgsFail("smtp_message_reset_status", message, 0)
     ELSE /\ messages' =
               [messages EXCEPT
                  ![message].reverse_path_status = reset_status(@),
                  ![message].message_status = reset_status(@)]
          /\ Return("smtp_message_reset_status", message, 1)
          /\ UNCHANGED <<sessions, recipients, heapvars, pc>>
  /\ UNCHANGED config

(* ------------------------ Recipient operations ------------------------- *)
\* APPEND_LIST (message->recipients, message->end_recipients, recipient)
AppendRecipient(message, recipient, mailbox) ==
  LET m == messages[message]
      linked == IF m.recipients = NULL THEN recipients
                ELSE [recipients EXCEPT ![m.end_recipients].next = recipient]
  IN /\ messages' = [messages EXCEPT
                        ![message].recipients =
                           IF m.recipients = NULL THEN recipient ELSE m.recipients,
                        ![message].end_recipients = recipient]
     /\ recipients' = (recipient :> [ZeroRecipient EXCEPT !.message = message,
                                                         !.mailbox = mailbox,
                                                         !.next = NULL]) @@ linked

\* the test of the arguments leaves out mailbox != NULL
smtp_add_recipient_any_mailbox(message, mailbox) ==
  /\ pc = "run"
  /\ IF message = NULL
     THEN CheckArgsFail("smtp_add_recipient", message, NULL)
     ELSE
       \/ /\ Fail("smtp_add_recipient", message, ENOMEM, 0)
          /\ UNCHANGED <<graphvars, heapvars, pc>>
       \/ /\ CanAlloc
          /\ smtp_errno' = ENOMEM
          /\ call' = [Result("smtp_add_recipient", message, 0)
                        EXCEPT !.freed = <<NewBlock>>]
          /\ brk' = brk + 1
          /\ UNCHANGED <<graphvars, strings, live, bad_free, pc>>
       \/ \E dup \in FreeStrings({}, {}) :
          /\ mailbox # NULL
          /\ CanAlloc
          /\ Len(RecipientsOf(message)) < MaxRecipients
          /\ AppendRecipient(message, NewBlock, dup)
          /\ strings' = (dup :> Text(mailbox)) @@ strings
          /\ live' = live \cup {NewBlock, dup}
          /\ brk' = brk + 1
          /\ Return("smtp_add_recipient", message, NewBlock)
          /\ UNCHANGED <<sessions, bad_free, pc>>
  /\ UNCHANGED config

\* the recipient is not freed when the copy of the mailbox fails
smtp_add_recipient_keeps_block(message, mailbox) ==
  /\ pc = "run"
  /\ IF message = NULL \/ mailbox = NULL
     THEN CheckArgsFail("smtp_add_recipient", message, NULL)
     ELSE
       \/ /\ Fail("smtp_add_recipient", message, ENOMEM, 0)
          /\ UNCHANGED <<graphvars, heapvars, pc>>
       \/ /\ CanAlloc
          /\ Fail("smtp_add_recipient", message, ENOMEM, 0)
          /\ brk' = brk + 1
          /\ live' = live \cup {NewBlock}
          /\ UNCHANGED <<graphvars, strings, bad_free, pc>>
       \/ \E dup \in FreeStrings({}, {}) :
          /\ CanAlloc
          /\ Len(RecipientsOf(message)) < MaxRecipients
          /\ AppendRecipient(message, NewBlock, dup)
          /\ strings' = (dup :> Text(mailbox)) @@ strings
          /\ live' = live \cup {NewBlock, dup}
          /\ brk' = brk + 1
          /\ Return("smtp_add_recipient", message, NewBlock)
          /\ UNCHANGED <<sessions, bad_free, pc>>
  /\ UNCHANGED config

smtp_add_recipient(message, mailbox) ==
  /\ pc = "run"
  /\ IF message = NULL \/ mailbox = NULL
     THEN CheckArgsFail("smtp_add_recipient", message, NULL)
     ELSE
       \/ \* malloc fails
          /\ Fail("smtp_add_recipient", message, ENOMEM, 0)
          /\ UNCHANGED <<graphvars, heapvars, pc>>
       \/ \* strdup fails: free (recipient)
          /\ CanAlloc
          /\ smtp_errno' = ENOMEM
          /\ call' = [Result("smtp_add_recipient", message, 0)
                        EXCEPT !.freed = <<NewBlock>>]
          /\ brk' = brk + 1
          /\ UNCHANGED <<graphvars, strings, live, bad_free, pc>>
       \/ \E dup \in FreeStrings({}, {}) :
          /\ CanAlloc
          /\ Len(RecipientsOf(message)) < MaxRecipients
          /\ AppendRecipient(message, NewBlock, dup)
          /\ strings' = (dup :> Text(mailbox)) @@ strings
          /\ live' = live \cup {NewBlock, dup}
          /\ brk' = brk + 1
          /\ Return("smtp_add_recipient", message, NewBlock)
          /\ UNCHANGED <<sessions, bad_free, pc>>
  /\ UNCHANGED config

\* the callback is applied to each recipient, with its mailbox, from
\* message->recipients on.  cb is not tested: a call through a null pointer
\* is undefined, and faults.
smtp_enumerate_recipients(message, cb) ==
  /\ pc = "run"
  /\ IF message = NULL
     THEN CheckArgsFail("smtp_enumerate_recipients", message, 0)
     ELSE IF cb = NULL /\ RecipientsOf(message) # <<>>
     THEN /\ pc' = "crashed"
          /\ call' = Result("smtp_enumerate_recipients", message, 0)
          /\ UNCHANGED <<graphvars, heapvars, smtp_errno>>
     ELSE
       /\ call' = [Result("smtp_enumerate_recipients", message, 1)
                     EXCEPT !.visited = RecipientsOf(message),
                            !.mailboxes =
                              [i \in DOMAIN RecipientsOf(message) |->
                                 recipients[RecipientsOf(message)[i]].mailbox]]
       /\ UNCHANGED <<graphvars, heapvars, pc, smtp_errno>>
  /\ UNCHANGED config

smtp_recipient_status(recipient) ==
  /\ pc = "run"
  /\ IF recipient = NULL
     THEN CheckArgsFail("smtp_recipient_status", recipient, NULL)
     ELSE /\ call' = [Result("smtp_recipient_status", recipient, recipient)
                        EXCEPT !.status = recipients[recipient].status]
          /\ UNCHANGED smtp_errno
          /\ UNCHANGED <<graphvars, heapvars, pc>>
  /\ UNCHANGED config

smtp_recipient_check_complete(recipient) ==
  /\ pc = "run"
  /\ IF recipient = NULL
     THEN CheckArgsFail("smtp_recipient_check_complete", recipient, 0)
     ELSE /\ Return("smtp_recipient_check_complete", recipient, recipients[recipient].complete)
          /\ UNCHANGED <<graphvars, heapvars, pc>>
  /\ UNCHANGED config

smtp_recipient_reset_status(recipient) ==
  /\ pc = "run"
  /\ IF recipient = NULL
     THEN CheckArgsFail("smtp_recipient_reset_status", recipient, 0)
     ELSE /\ recipients' =
               [recipients EXCEPT
                  ![recipient].status = reset_status(@),
                  ![recipient].complete = 0]
          /\ Return("smtp_recipient_reset_status", recipient, 1)
          /\ UNCHANGED <<sessions, messages, heapvars, pc>>
  /\ UNCHANGED config

(* --------------------------- DSN (RFC 1891) ---------------------------- *)
\* an assignment in place of the `|='
RequireExtension_assign(session, bit) ==
  [sessions EXCEPT ![session].required_extensions = {bit}]

\* session->required_extensions |= bit
RequireExtension(session, bit) ==
  [sessions EXCEPT ![session].required_extensions = @ \cup {bit}]

\* the extension is required of every session, not of the owner alone
smtp_dsn_set_ret_every_session(message, flags) ==
  /\ pc = "run"
  /\ IF message = NULL
     THEN CheckArgsFail("smtp_dsn_set_ret", message, 0)
     ELSE /\ messages' = [messages EXCEPT ![message].dsn_ret = flags]
          /\ sessions' = IF flags # Ret_NOTSET
                          THEN [s \in DOMAIN sessions |->
                                  [sessions[s] EXCEPT
                                     !.required_extensions = @ \cup {EXT_DSN}]]
                          ELSE sessions
          /\ Return("smtp_dsn_set_ret", message, 1)
          /\ UNCHANGED <<recipients, heapvars, pc>>
  /\ UNCHANGED config

smtp_dsn_set_ret(message, flags) ==
  /\ pc = "run"
  /\ IF message = NULL
     THEN CheckArgsFail("smtp_dsn_set_ret", message, 0)
     ELSE /\ messages' = [messages EXCEPT ![message].dsn_ret = flags]
          /\ sessions' = IF flags # Ret_NOTSET
                          THEN RequireExtension(messages[message].session, EXT_DSN)
                          ELSE sessions
          /\ Return("smtp_dsn_set_ret", message, 1)
          /\ UNCHANGED <<recipients, heapvars, pc>>
  /\ UNCHANGED config

\* the identifier is stored and the extension is not required
smtp_dsn_set_envid_no_bit(message, envid) ==
  /\ pc = "run"
  /\ IF message = NULL
     THEN CheckArgsFail("smtp_dsn_set_envid", message, 0)
     ELSE
       \/ /\ envid = NULL
          /\ StrdupNull("smtp_dsn_set_envid", message)
       \/ /\ messages' = [messages EXCEPT ![message].dsn_envid = NULL]
          /\ Fail("smtp_dsn_set_envid", message, ENOMEM, 0)
          /\ UNCHANGED <<sessions, recipients, heapvars, pc>>
       \/ \E dup \in FreeStrings({}, {}) :
          /\ envid # NULL
          /\ strings' = (dup :> Text(envid)) @@ strings
          /\ live' = live \cup {dup}
          /\ messages' = [messages EXCEPT ![message].dsn_envid = dup]
          /\ Return("smtp_dsn_set_envid", message, 1)
          /\ UNCHANGED <<sessions, recipients, brk, bad_free, pc>>
  /\ UNCHANGED config

smtp_dsn_set_envid(message, envid) ==
  /\ pc = "run"
  /\ IF message = NULL
     THEN CheckArgsFail("smtp_dsn_set_envid", message, 0)
     ELSE
       \/ /\ envid = NULL
          /\ StrdupNull("smtp_dsn_set_envid", message)
       \/ \* strdup fails: its NULL has been stored
          /\ messages' = [messages EXCEPT ![message].dsn_envid = NULL]
          /\ Fail("smtp_dsn_set_envid", message, ENOMEM, 0)
          /\ UNCHANGED <<sessions, recipients, heapvars, pc>>
       \/ \E dup \in FreeStrings({}, {}) :
          /\ envid # NULL
          /\ strings' = (dup :> Text(envid)) @@ strings
          /\ live' = live \cup {dup}
          /\ messages' = [messages EXCEPT ![message].dsn_envid = dup]
          /\ sessions' = RequireExtension(messages[message].session, EXT_DSN)
          /\ Return("smtp_dsn_set_envid", message, 1)
          /\ UNCHANGED <<recipients, brk, bad_free, pc>>
  /\ UNCHANGED config

smtp_dsn_set_notify(recipient, flags) ==
  /\ pc = "run"
  /\ IF recipient = NULL
     THEN CheckArgsFail("smtp_dsn_set_notify", recipient, 0)
     ELSE /\ recipients' = [recipients EXCEPT ![recipient].dsn_notify = flags]
          /\ sessions' =
               IF flags # Notify_NOTSET
               THEN RequireExtension(messages[recipients[recipient].message].session,
                                     EXT_DSN)
               ELSE sessions
          /\ Return("smtp_dsn_set_notify", recipient, 1)
          /\ UNCHANGED <<messages, heapvars, pc>>
  /\ UNCHANGED config

smtp_dsn_set_orcpt(recipient, address_type, address) ==
  /\ pc = "run"
  /\ IF recipient = NULL
     THEN CheckArgsFail("smtp_dsn_set_orcpt", recipient, 0)
     ELSE
       \/ /\ address_type = NULL
          /\ StrdupNull("smtp_dsn_set_orcpt", recipient)
       \/ \* the first strdup fails: its NULL has been stored
          /\ recipients' = [recipients EXCEPT ![recipient].dsn_addrtype = NULL]
          /\ Fail("smtp_dsn_set_orcpt", recipient, ENOMEM, 0)
          /\ UNCHANGED <<sessions, messages, heapvars, pc>>
       \/ \* the second strdup is given NULL, the first string is stored
          \E dup \in FreeStrings({}, {}) :
          /\ address_type # NULL /\ address = NULL
          /\ recipients' = [recipients EXCEPT
                              ![recipient].dsn_addrtype = dup]
          /\ strings' = (dup :> Text(address_type)) @@ strings
          /\ live' = live \cup {dup}
          /\ call' = Result("smtp_dsn_set_orcpt", recipient, 0)
          /\ pc' = "crashed"
          /\ UNCHANGED <<sessions, messages, brk, bad_free, smtp_errno>>
       \/ \* the second strdup fails: free (recipient->dsn_addrtype), which
          \* keeps pointing to the freed block
          \E dup \in FreeStrings({}, {}) :
          /\ address_type # NULL
          /\ recipients' = [recipients EXCEPT
                              ![recipient].dsn_addrtype = dup,
                              ![recipient].dsn_orcpt = NULL]
          /\ smtp_errno' = ENOMEM
          /\ call' = [Result("smtp_dsn_set_orcpt", recipient, 0)
                        EXCEPT !.freed = <<dup>>]
          /\ UNCHANGED <<sessions, messages, heapvars, pc>>
       \/ \E dup \in FreeStrings({}, {}) :
          \E dup2 \in FreeStrings({}, {dup}) :
          /\ address_type # NULL /\ address # NULL
          /\ recipients' = [recipients EXCEPT
                              ![recipient].dsn_addrtype = dup,
                              ![recipient].dsn_orcpt = dup2]
          /\ strings' = (dup :> Text(address_type))
                           @@ (dup2 :> Text(address))
                           @@ strings
          /\ live' = live \cup {dup, dup2}
          /\ sessions' = RequireExtension(messages[recipients[recipient].message].session,
                                          EXT_DSN)
          /\ Return("smtp_dsn_set_orcpt", recipient, 1)
          /\ UNCHANGED <<messages, brk, bad_free, pc>>
  /\ UNCHANGED config

(* ---------------------------- SIZE (RFC 1870) -------------------------- *)
smtp_size_set_estimate(message, size) ==
  /\ pc = "run"
  /\ IF message = NULL
     THEN CheckArgsFail("smtp_size_set_estimate", message, 0)
     ELSE /\ messages' = [messages EXCEPT ![message].size_estimate = size]
          /\ Return("smtp_size_set_estimate", message, 1)
          /\ UNCHANGED <<sessions, recipients, heapvars, pc>>
  /\ UNCHANGED config

(* -------------------------- 8BITMIME (RFC 1652) ------------------------ *)
\* the body type is stored and the extension is not required
smtp_8bitmime_set_body_no_bit(message, body) ==
  /\ pc = "run"
  /\ IF message = NULL
     THEN CheckArgsFail("smtp_8bitmime_set_body", message, 0)
     ELSE /\ messages' = [messages EXCEPT ![message].e8bitmime = body]
          /\ Return("smtp_8bitmime_set_body", message, 1)
          /\ UNCHANGED <<sessions, recipients, heapvars, pc>>
  /\ UNCHANGED config

smtp_8bitmime_set_body(message, body) ==
  /\ pc = "run"
  /\ IF message = NULL
     THEN CheckArgsFail("smtp_8bitmime_set_body", message, 0)
     ELSE /\ messages' = [messages EXCEPT ![message].e8bitmime = body]
          /\ sessions' = IF body # E8bitmime_NOTSET
                          THEN RequireExtension(messages[message].session, EXT_8BITMIME)
                          ELSE sessions
          /\ Return("smtp_8bitmime_set_body", message, 1)
          /\ UNCHANGED <<recipients, heapvars, pc>>
  /\ UNCHANGED config

(* -------------------------- DELIVERBY (RFC 2852) ----------------------- *)
\* By_RETURN is refused for a negative time only
DeliverbyArgsOk_negative(time, mode) ==
  /\ -999999999 <= time /\ time <= 999999999
  /\ ~(mode = By_RETURN /\ time < 0)

\* the two SMTPAPI_CHECK_ARGS tests on the arguments
DeliverbyArgsOk(time, mode) ==
  /\ -999999999 <= time /\ time <= 999999999
  /\ ~(mode = By_RETURN /\ time <= 0)

\* the trace argument is stored as it is given
smtp_deliverby_set_mode_raw_trace(message, time, mode, trace) ==
  /\ pc = "run"
  /\ IF message = NULL \/ ~DeliverbyArgsOk(time, mode)
     THEN CheckArgsFail("smtp_deliverby_set_mode", message, 0)
     ELSE /\ messages' = [messages EXCEPT
                             ![message].by_time = time,
                             ![message].by_mode = mode,
                             ![message].by_trace = trace]
          /\ Return("smtp_deliverby_set_mode", message, 1)
          /\ UNCHANGED <<sessions, recipients, heapvars, pc>>
  /\ UNCHANGED config

smtp_deliverby_set_mode(message, time, mode, trace) ==
  /\ pc = "run"
  /\ IF message = NULL \/ ~DeliverbyArgsOk(time, mode)
     THEN CheckArgsFail("smtp_deliverby_set_mode", message, 0)
     ELSE /\ messages' = [messages EXCEPT
                             ![message].by_time = time,
                             ![message].by_mode = mode,
                             ![message].by_trace = IF trace # 0 THEN 1 ELSE 0]
          /\ Return("smtp_deliverby_set_mode", message, 1)
          /\ UNCHANGED <<sessions, recipients, heapvars, pc>>
  /\ UNCHANGED config

(* ------------------------------ callbacks ------------------------------ *)
\* cb is not tested
smtp_set_messagecb_any_cb(message, cb, arg) ==
  /\ pc = "run"
  /\ IF message = NULL
     THEN CheckArgsFail("smtp_set_messagecb", message, 0)
     ELSE /\ messages' = [messages EXCEPT ![message].cb = cb,
                                            ![message].cb_arg = arg]
          /\ Return("smtp_set_messagecb", message, 1)
          /\ UNCHANGED <<sessions, recipients, heapvars, pc>>
  /\ UNCHANGED config

smtp_set_messagecb(message, cb, arg) ==
  /\ pc = "run"
  /\ IF message = NULL \/ cb = NULL
     THEN CheckArgsFail("smtp_set_messagecb", message, 0)
     ELSE /\ messages' = [messages EXCEPT ![message].cb = cb,
                                            ![message].cb_arg = arg]
          /\ Return("smtp_set_messagecb", message, 1)
          /\ UNCHANGED <<sessions, recipients, heapvars, pc>>
  /\ UNCHANGED config

smtp_set_eventcb(session, cb, arg) ==
  /\ pc = "run"
  /\ IF session = NULL
     THEN CheckArgsFail("smtp_set_eventcb", session, 0)
     ELSE /\ sessions' = [sessions EXCEPT ![session].event_cb = cb,
                                            ![session].event_cb_arg = arg]
          /\ Return("smtp_set_eventcb", session, 1)
          /\ UNCHANGED <<messages, recipients, heapvars, pc>>
  /\ UNCHANGED config

smtp_set_monitorcb(session, cb, arg, headers) ==
  /\ pc = "run"
  /\ IF session = NULL
     THEN CheckArgsFail("smtp_set_monitorcb", session, 0)
     ELSE /\ sessions' = [sessions EXCEPT ![session].monitor_cb = cb,
                                            ![session].monitor_cb_arg = arg,
                                            ![session].monitor_cb_headers = headers]
          /\ Return("smtp_set_monitorcb", session, 1)
          /\ UNCHANGED <<messages, recipients, heapvars, pc>>
  /\ UNCHANGED config

(* --------------------------- protocol engine --------------------------- *)
\* what the engine may leave in a status record
EngineStatus == {[code |-> 250, text |-> "Ok"], [code |-> 550, text |-> "No"]}

\* do_session (session): the engine runs the protocol on the session's graph;
\* it writes the status records and completion flags of the session, of its
\* messages and of their recipients, and returns its verdict r
do_session(session, r, status) ==
  LET ms == {MessagesOf(session)[i] : i \in DOMAIN MessagesOf(session)}
  IN /\ sessions' = [sessions EXCEPT ![session].mta_status = status]
     /\ messages' = [m \in DOMAIN messages |->
                       IF m \in ms
                       THEN [messages[m] EXCEPT !.reverse_path_status = status,
                                                !.message_status = status]
                       ELSE messages[m]]
     /\ recipients' = [x \in DOMAIN recipients |->
                         IF recipients[x].message \in ms
                         THEN [recipients[x] EXCEPT !.status = status, !.complete = 1]
                         ELSE recipients[x]]
     /\ call' = [Result("smtp_start_session", session, r) EXCEPT !.engine = 1]

\* the callback of the first message only is tested
smtp_start_session_first_message(session) ==
  /\ pc = "run"
  /\ IF \/ session = NULL
        \/ sessions[session].host = NULL
        \/ (~config.HAVE_GETHOSTNAME /\ sessions[session].localhost = NULL)
        \/ /\ MessagesOf(session) # <<>>
           /\ messages[Head(MessagesOf(session))].cb = NULL
     THEN CheckArgsFail("smtp_start_session", session, 0)
     ELSE /\ \E r \in {0, 1}, status \in EngineStatus : do_session(session, r, status)
          /\ UNCHANGED <<heapvars, pc, smtp_errno>>
  /\ UNCHANGED config

\* a session with no message is refused
smtp_start_session_needs_message(session) ==
  /\ pc = "run"
  /\ IF \/ session = NULL
        \/ sessions[session].host = NULL
        \/ (~config.HAVE_GETHOSTNAME /\ sessions[session].localhost = NULL)
        \/ MessagesOf(session) = <<>>
        \/ \E i \in DOMAIN MessagesOf(session) :
              messages[MessagesOf(session)[i]].cb = NULL
     THEN CheckArgsFail("smtp_start_session", session, 0)
     ELSE /\ \E r \in {0, 1}, status \in EngineStatus : do_session(session, r, status)
          /\ UNCHANGED <<heapvars, pc, smtp_errno>>
  /\ UNCHANGED config

smtp_start_session(session) ==
  /\ pc = "run"
  /\ IF \/ session = NULL
        \/ sessions[session].host = NULL
        \/ (~config.HAVE_GETHOSTNAME /\ sessions[session].localhost = NULL)
        \/ \E i \in DOMAIN MessagesOf(session) :
              messages[MessagesOf(session)[i]].cb = NULL
     THEN CheckArgsFail("smtp_start_session", session, 0)
     ELSE /\ \E r \in {0, 1}, status \in EngineStatus : do_session(session, r, status)
          /\ UNCHANGED <<heapvars, pc, smtp_errno>>
  /\ UNCHANGED config

(* ------------------------------ teardown ------------------------------- *)
RECURSIVE Flatten(_)
Flatten(seqs) == IF seqs = <<>> THEN <<>> ELSE Head(seqs) \o Flatten(Tail(seqs))

IfSet(p) == IF p # NULL THEN <<p>> ELSE <<>>

\* the arguments of the free () calls made for one recipient, in order
RecipientFrees(recipient) ==
  LET x == recipients[recipient]
  IN <<x.mailbox>> \o IfSet(x.dsn_addrtype) \o IfSet(x.dsn_orcpt) \o <<recipient>>

\* the message is freed before its recipients
MessageFrees_message_first(message) ==
  LET m == messages[message]
      rs == RecipientsOf(message)
  IN <<m.reverse_path_mailbox>>
       \o IfSet(m.dsn_envid) \o <<message>>
       \o Flatten([i \in DOMAIN rs |-> RecipientFrees(rs[i])])

\* ... for one message and its recipients
MessageFrees(message) ==
  LET m == messages[message]
      rs == RecipientsOf(message)
  IN <<m.reverse_path_mailbox>>
       \o Flatten([i \in DOMAIN rs |-> RecipientFrees(rs[i])])
       \o IfSet(m.dsn_envid) \o <<message>>

\* ... for the whole session
SessionFrees(session) ==
  LET s == sessions[session]
      ms == MessagesOf(session)
  IN IfSet(s.host) \o IfSet(s.localhost)
       \o Flatten([i \in DOMAIN ms |-> MessageFrees(ms[i])])
       \o <<session>>

\* What smtp_destroy_session does to the blocks, in order: a use of a
\* structure (a read or a write of one of its fields) or a free of a block.
Use(p) == <<[ev |-> "use", at |-> p]>>
Freeing(p) == <<[ev |-> "free", at |-> p]>>

\* one turn of the inner loop, for the recipient at the head of the message's
\* list: its next pointer is read, its strings are freed through its fields,
\* it is freed through message->recipients, which is then overwritten
RecipientAccesses(message, recipient) ==
  LET x == recipients[recipient]
  IN Use(message) \o Use(recipient)
       \o Use(recipient)
       \o Use(recipient) \o Freeing(x.mailbox)
       \o Use(recipient)
       \o (IF x.dsn_addrtype # NULL
           THEN Use(recipient) \o Freeing(x.dsn_addrtype) ELSE <<>>)
       \o Use(recipient)
       \o (IF x.dsn_orcpt # NULL
           THEN Use(recipient) \o Freeing(x.dsn_orcpt) ELSE <<>>)
       \o Use(message) \o Freeing(recipient)
       \o Use(message)

\* one turn of the outer loop, for the message at the head of the session's
\* list
MessageAccesses(session, message) ==
  LET m == messages[message]
      rs == RecipientsOf(message)
  IN Use(session) \o Use(message)
       \o Use(message)
       \o Use(message) \o Freeing(m.reverse_path_mailbox)
       \o Flatten([i \in DOMAIN rs |-> Use(message) \o RecipientAccesses(message, rs[i])])
       \o Use(message)
       \o Use(message)
       \o Use(message)
       \o (IF m.dsn_envid # NULL THEN Use(message) \o Freeing(m.dsn_envid) ELSE <<>>)
       \o Use(session) \o Freeing(message)
       \o Use(session)

\* the whole call
SessionAccesses(session) ==
  LET s == sessions[session]
      ms == MessagesOf(session)
  IN Use(session) \o Use(session)
       \o Use(session)
       \o (IF s.host # NULL THEN Use(session) \o Freeing(s.host) ELSE <<>>)
       \o Use(session)
       \o (IF s.localhost # NULL THEN Use(session) \o Freeing(s.localhost) ELSE <<>>)
       \o Use(session)
       \o Flatten([i \in DOMAIN ms |-> Use(session) \o MessageAccesses(session, ms[i])])
       \o Use(session)
       \o Freeing(session)

smtp_destroy_session(session) ==
  /\ pc = "run"
  /\ IF session = NULL
     THEN CheckArgsFail("smtp_destroy_session", session, 0)
     ELSE
       LET freed == SessionFrees(session)
           gone == {freed[i] : i \in DOMAIN freed}
       IN /\ Free(freed)
          /\ brk' = brk
          /\ sessions' = [a \in DOMAIN sessions \ gone |-> sessions[a]]
          /\ messages' = [a \in DOMAIN messages \ gone |-> messages[a]]
          /\ recipients' = [a \in DOMAIN recipients \ gone |-> recipients[a]]
          /\ UNCHANGED smtp_errno
          /\ call' = [Result("smtp_destroy_session", session, 1) EXCEPT !.freed = freed]
  /\ UNCHANGED config

(* -------------------------- application data --------------------------- *)
smtp_set_application_data(session, data) ==
  /\ pc = "run"
  /\ IF session = NULL
     THEN CheckArgsFail("smtp_set_application_data", session, 0)
     ELSE /\ sessions' = [sessions EXCEPT ![session].application_data = data]
          /\ Return("smtp_set_application_data", session, sessions[session].application_data)
          /\ UNCHANGED <<messages, recipients, heapvars, pc>>
  /\ UNCHANGED config

smtp_get_application_data(session) ==
  /\ pc = "run"
  /\ IF session = NULL
     THEN CheckArgsFail("smtp_get_application_data", session, 0)
     ELSE /\ Return("smtp_get_application_data", session, sessions[session].application_data)
          /\ UNCHANGED <<graphvars, heapvars, pc>>
  /\ UNCHANGED config

smtp_message_set_application_data(message, data) ==
  /\ pc = "run"
  /\ IF message = NULL
     THEN CheckArgsFail("smtp_message_set_application_data", message, 0)
     ELSE /\ messages' = [messages EXCEPT ![message].application_data = data]
          /\ Return("smtp_message_set_application_data", message,
                    messages[message].application_data)
          /\ UNCHANGED <<sessions, recipients, heapvars, pc>>
  /\ UNCHANGED config

smtp_message_get_application_data(message) ==
  /\ pc = "run"
  /\ IF message = NULL
     THEN CheckArgsFail("smtp_message_get_application_data", message, 0)
     ELSE /\ Return("smtp_message_get_application_data", message,
                    messages[message].application_data)
          /\ UNCHANGED <<graphvars, heapvars, pc>>
  /\ UNCHANGED config

\* the value just stored is returned
smtp_recipient_set_application_data_new(recipient, data) ==
  /\ pc = "run"
  /\ IF recipient = NULL
     THEN CheckArgsFail("smtp_recipient_set_application_data", recipient, 0)
     ELSE /\ recipients' = [recipients EXCEPT ![recipient].application_data = data]
          /\ Return("smtp_recipient_set_application_data", recipient, data)
          /\ UNCHANGED <<sessions, messages, heapvars, pc>>
  /\ UNCHANGED config

smtp_recipient_set_application_data(recipient, data) ==
  /\ pc = "run"
  /\ IF recipient = NULL
     THEN CheckArgsFail("smtp_recipient_set_application_data", recipient, 0)
     ELSE /\ recipients' = [recipients EXCEPT ![recipient].application_data = data]
          /\ Return("smtp_recipient_set_application_data", recipient,
                    recipients[recipient].application_data)
          /\ UNCHANGED <<sessions, messages, heapvars, pc>>
  /\ UNCHANGED config

smtp_recipient_get_application_data(recipient) ==
  /\ pc = "run"
  /\ IF recipient = NULL
     THEN CheckArgsFail("smtp_recipient_get_application_data", recipient, 0)
     ELSE /\ Return("smtp_recipient_get_application_data", recipient,
                    recipients[recipient].application_data)
          /\ UNCHANGED <<graphvars, heapvars, pc>>
  /\ UNCHANGED config

(* ------------------------ the application's calls ---------------------- *)
\* the argument values the application passes
CallbackArgs == {NULL, 1}
ContextArgs == {NULL, 1}
DataArgs == {NULL, 1}
RetArgs == {Ret_NOTSET, "Ret_FULL", "Ret_out_of_range"}
NotifyArgs == {Notify_NOTSET, "Notify_SUCCESS", "Notify_out_of_range"}
BodyArgs == {E8bitmime_NOTSET, "E8bitmime_8BITMIME", "E8bitmime_out_of_range"}
ModeArgs == {By_NOTSET, By_NOTIFY, By_RETURN, "By_out_of_range"}
TimeArgs == {-1000000000, -999999999, 0, 1, 120, 999999999, 1000000000}
TraceArgs == {0, 1, 2}
SizeArgs == {0, 1000}
HeadersArgs == {0, 1}

\* the application creates its sessions first: one session, or, where the
\* independence of two sessions is explored, MaxPeerSessions of them
CreateSession == smtp_create_session /\ brk < MaxSessions
CreatePeerSessions == smtp_create_session /\ brk < MaxPeerSessions
SetServer == \E s \in SessionHandles, h \in HostportArgs : smtp_set_server(s, h)
SetHostname == \E s \in SessionHandles, h \in StringArgs : smtp_set_hostname(s, h)
AddMessage == \E s \in SessionHandles : smtp_add_message(s)
EnumerateMessages ==
  \E s \in SessionHandles, cb \in CallbackArgs : smtp_enumerate_messages(s, cb)
MessageTransferStatus == \E m \in MessageHandles : smtp_message_transfer_status(m)
SetReversePath ==
  \E m \in MessageHandles, a \in StringArgs : smtp_set_reverse_path(m, a)
ReversePathStatus == \E m \in MessageHandles : smtp_reverse_path_status(m)
MessageResetStatus == \E m \in MessageHandles : smtp_message_reset_status(m)
AddRecipient ==
  \E m \in MessageHandles, a \in StringArgs : smtp_add_recipient(m, a)
EnumerateRecipients ==
  \E m \in MessageHandles, cb \in CallbackArgs : smtp_enumerate_recipients(m, cb)
RecipientStatus == \E r \in RecipientHandles : smtp_recipient_status(r)
RecipientCheckComplete == \E r \in RecipientHandles : smtp_recipient_check_complete(r)
RecipientResetStatus == \E r \in RecipientHandles : smtp_recipient_reset_status(r)
DsnSetRet == \E m \in MessageHandles, f \in RetArgs : smtp_dsn_set_ret(m, f)
DsnSetEnvid == \E m \in MessageHandles, e \in StringArgs : smtp_dsn_set_envid(m, e)
DsnSetNotify == \E r \in RecipientHandles, f \in NotifyArgs : smtp_dsn_set_notify(r, f)
DsnSetOrcpt ==
  \E r \in RecipientHandles, t \in AddrTypeArgs, a \in StringArgs :
    smtp_dsn_set_orcpt(r, t, a)
SizeSetEstimate ==
  \E m \in MessageHandles, n \in SizeArgs : smtp_size_set_estimate(m, n)
E8bitmimeSetBody ==
  \E m \in MessageHandles, b \in BodyArgs : smtp_8bitmime_set_body(m, b)
DeliverbySetMode ==
  \E m \in MessageHandles, t \in TimeArgs, md \in ModeArgs, tr \in TraceArgs :
    smtp_deliverby_set_mode(m, t, md, tr)
SetMessagecb ==
  \E m \in MessageHandles, cb \in CallbackArgs, a \in ContextArgs :
    smtp_set_messagecb(m, cb, a)
SetEventcb ==
  \E s \in SessionHandles, cb \in CallbackArgs, a \in ContextArgs :
    smtp_set_eventcb(s, cb, a)
SetMonitorcb ==
  \E s \in SessionHandles, cb \in CallbackArgs, a \in ContextArgs,
     h \in HeadersArgs : smtp_set_monitorcb(s, cb, a, h)
StartSession == \E s \in SessionHandles : smtp_start_session(s)
DestroySession == \E s \in SessionHandles : smtp_destroy_session(s)
SetApplicationData ==
  \E s \in SessionHandles, d \in DataArgs : smtp_set_application_data(s, d)
GetApplicationData == \E s \in SessionHandles : smtp_get_application_data(s)
MessageSetApplicationData ==
  \E m \in MessageHandles, d \in DataArgs : smtp_message_set_application_data(m, d)
MessageGetApplicationData ==
  \E m \in MessageHandles : smtp_message_get_application_data(m)
RecipientSetApplicationData ==
  \E r \in RecipientHandles, d \in DataArgs : smtp_recipient_set_application_data(r, d)
RecipientGetApplicationData ==
  \E r \in RecipientHandles : smtp_recipient_get_application_data(r)

\* every operation of the API
Next ==
  \/ CreateSession \/ SetServer \/ SetHostname \/ AddMessage \/ EnumerateMessages
  \/ MessageTransferStatus \/ SetReversePath \/ ReversePathStatus
  \/ MessageResetStatus \/ AddRecipient \/ EnumerateRecipients
  \/ RecipientStatus \/ RecipientCheckComplete \/ RecipientResetStatus
  \/ DsnSetRet \/ DsnSetEnvid \/ DsnSetNotify \/ DsnSetOrcpt
  \/ SizeSetEstimate \/ E8bitmimeSetBody \/ DeliverbySetMode
  \/ SetMessagecb \/ SetEventcb \/ SetMonitorcb
  \/ StartSession \/ DestroySession
  \/ SetApplicationData \/ GetApplicationData
  \/ MessageSetApplicationData \/ MessageGetApplicationData
  \/ RecipientSetApplicationData \/ RecipientGetApplicationData

Spec == Init /\ [][Next]_vars

\* the build with getaddrinfo and gethostname, for the operations that no
\* HAVE_ macro touches
InitPosix ==
  Init /\ config = [HAVE_GETADDRINFO |-> TRUE, HAVE_GETHOSTNAME |-> TRUE]

\* building and walking the lists
NextList ==
  \/ CreateSession \/ AddMessage \/ EnumerateMessages
  \/ AddRecipient \/ EnumerateRecipients \/ DestroySession
  \/ SetReversePath \/ DsnSetNotify

SpecList == InitPosix /\ [][NextList]_vars

\* every operation that allocates or frees, in every build
NextMem ==
  \/ CreateSession \/ SetHostname \/ AddMessage \/ SetReversePath
  \/ (\E s \in SessionHandles, h \in {NULL, -1, -2} : smtp_set_server(s, h))
  \/ AddRecipient \/ DsnSetEnvid \/ DsnSetOrcpt \/ DestroySession

SpecMem == InitPosix /\ [][NextMem]_vars

\* preparing and starting a session, in every build
NextStart ==
  \/ CreateSession \/ SetServer \/ SetHostname \/ AddMessage
  \/ SetMessagecb \/ StartSession

SpecStart == Init /\ [][NextStart]_vars

\* the original-recipient pair
NextOrcpt ==
  \/ CreateSession \/ AddMessage \/ AddRecipient \/ DsnSetOrcpt \/ DsnSetNotify
  \/ DestroySession

SpecOrcpt == InitPosix /\ [][NextOrcpt]_vars

\* an application that adds no more than MaxExtMessages messages
AddFewMessages ==
  \E s \in SessionHandles :
    smtp_add_message(s) /\ Cardinality(DOMAIN messages) < MaxExtMessages

\* the options of the extensions, the adds and the resets
NextExt ==
  \/ CreateSession \/ AddRecipient \/ AddFewMessages
  \/ (\E m \in MessageHandles, f \in {Ret_NOTSET, "Ret_FULL"} :
        smtp_dsn_set_ret(m, f))
  \/ DsnSetEnvid
  \/ (\E r \in RecipientHandles, f \in {Notify_NOTSET, "Notify_SUCCESS"} :
        smtp_dsn_set_notify(r, f))
  \/ DsnSetOrcpt
  \/ (\E m \in MessageHandles, b \in {E8bitmime_NOTSET, "E8bitmime_8BITMIME"} :
        smtp_8bitmime_set_body(m, b))
  \/ (\E m \in MessageHandles : smtp_deliverby_set_mode(m, 120, By_NOTIFY, 1))
  \/ MessageResetStatus \/ RecipientResetStatus \/ DestroySession

SpecExt == InitPosix /\ [][NextExt]_vars

\* the DELIVERBY option with every argument
NextDeliverby == CreateSession \/ AddFewMessages \/ DeliverbySetMode

SpecDeliverby == InitPosix /\ [][NextDeliverby]_vars

(* ======================================================================= *)
(* Properties                                                              *)
(* ======================================================================= *)
\* the addresses of the set S in the order in which they were allocated
RECURSIVE InCreationOrder(_)
InCreationOrder(S) ==
  IF S = {} THEN <<>>
  ELSE LET first == CHOOSE a \in S : \A b \in S : a <= b
       IN <<first>> \o InCreationOrder(S \ {first})

\* the messages smtp_add_message has returned for a session, and the
\* recipients smtp_add_recipient has returned for a message
CreatedMessages(session) ==
  InCreationOrder({m \in DOMAIN messages : messages[m].session = session})
CreatedRecipients(message) ==
  InCreationOrder({r \in DOMAIN recipients : recipients[r].message = message})

\* C1, for one step: a list changes only by a successful add, which puts the
\* one new entity at its end; an enumeration calls back once per entity of
\* the list, in creation order
C1Step ==
  /\ \A s \in DOMAIN sessions \cap DOMAIN sessions' :
        \/ MessagesOf(s)' = MessagesOf(s)
        \/ /\ call'.op = "smtp_add_message"
           /\ call'.ret \notin DOMAIN messages
           /\ MessagesOf(s)' = Append(MessagesOf(s), call'.ret)
  /\ \A m \in DOMAIN messages \cap DOMAIN messages' :
        \/ RecipientsOf(m)' = RecipientsOf(m)
        \/ /\ call'.op = "smtp_add_recipient"
           /\ call'.ret \notin DOMAIN recipients
           /\ RecipientsOf(m)' = Append(RecipientsOf(m), call'.ret)
  /\ \A s \in DOMAIN sessions :
        smtp_add_message(s) /\ call'.ret # NULL
          => MessagesOf(s)' = Append(MessagesOf(s), call'.ret)
  /\ \A m \in DOMAIN messages, a \in StringArgs :
        smtp_add_recipient(m, a) /\ call'.ret # NULL
          => RecipientsOf(m)' = Append(RecipientsOf(m), call'.ret)
  /\ \A s \in DOMAIN sessions, cb \in CallbackArgs \ {NULL} :
        smtp_enumerate_messages(s, cb)
          => call'.visited = CreatedMessages(s)
  /\ \A m \in DOMAIN messages, cb \in CallbackArgs \ {NULL} :
        smtp_enumerate_recipients(m, cb)
          => /\ call'.visited = CreatedRecipients(m)
             /\ call'.mailboxes =
                  [i \in DOMAIN CreatedRecipients(m) |->
                     recipients[CreatedRecipients(m)[i]].mailbox]

\* C1: the message list of a session and the recipient list of a message are
\* append-only, and the enumerations call back exactly once per entity, in
\* creation order
C1_AppendOnlyInOrder == [][C1Step]_vars

\* an enumeration has called back for the two recipients of a message
C1_Witness ==
  /\ call.op = "smtp_enumerate_recipients"
  /\ call.on \in DOMAIN messages
  /\ Len(call.visited) = 2
  /\ call.visited = RecipientsOf(call.on)

(* ------------------------------ teardown ------------------------------- *)
\* C2: once smtp_destroy_session has returned for the session, no block is
\* still allocated (no leak) and no block was passed to free () while it was
\* not allocated (no double free)
C2_DestroyFreesAllOnce ==
  (call.op = "smtp_destroy_session" /\ call.ret = 1 /\ DOMAIN sessions = {})
    => (live = {} /\ bad_free = {})

(* --------------------------- starting a session ------------------------ *)
\* the session has a message, anywhere in its list, with no callback
LacksCallback(session) ==
  \E i \in DOMAIN MessagesOf(session) : messages[MessagesOf(session)[i]].cb = NULL

\* C3, for one step: smtp_start_session on a session with no host, or with a
\* message that has no callback, returns 0 with the last error set to
\* SMTP_ERR_INVAL, does not enter the engine and leaves every status alone
C3Step ==
  \A s \in DOMAIN sessions :
    ( /\ sessions[s].host = NULL \/ LacksCallback(s)
      /\ call'.op = "smtp_start_session"
      /\ smtp_start_session(s) )
      => /\ call'.ret = 0
         /\ smtp_errno' = SMTP_ERR_INVAL
         /\ call'.engine = 0
         /\ UNCHANGED graphvars

\* C3: smtp_start_session never enters the engine when the host is unset or a
\* message of the list has no callback; it fails with SMTP_ERR_INVAL
C3_NoEngineOnViolation == [][C3Step]_vars

\* smtp_start_session has failed on a session with a host, whose first message
\* has a callback and whose second has none
C3_Witness ==
  /\ call.op = "smtp_start_session"
  /\ call.on \in DOMAIN sessions
  /\ call.ret = 0 /\ call.engine = 0
  /\ smtp_errno = SMTP_ERR_INVAL
  /\ sessions[call.on].host # NULL
  /\ Len(MessagesOf(call.on)) = 2
  /\ messages[MessagesOf(call.on)[1]].cb # NULL
  /\ messages[MessagesOf(call.on)[2]].cb = NULL

(* ---------------------- the original-recipient pair -------------------- *)
\* C4, for one step: on a recipient with no pair, smtp_dsn_set_orcpt whose
\* second strdup fails (the first string is the block it frees) returns 0 with
\* ENOMEM and leaves both fields of the pair NULL
C4Step ==
  \A r \in DOMAIN recipients, t \in AddrTypeArgs \ {NULL}, a \in StringArgs \ {NULL} :
    ( /\ recipients[r].dsn_addrtype = NULL
      /\ recipients[r].dsn_orcpt = NULL
      /\ smtp_dsn_set_orcpt(r, t, a)
      /\ call'.freed # <<>> )
      => /\ call'.ret = 0
         /\ smtp_errno' = ENOMEM
         /\ recipients'[r].dsn_addrtype = NULL
         /\ recipients'[r].dsn_orcpt = NULL

\* C4: when the allocation of the second string fails on a recipient whose
\* pair is unset, smtp_dsn_set_orcpt fails with ENOMEM, both fields are NULL
\* afterwards and the recipient holds no reference to the released string
C4_SecondFailureLeavesPairUnset == [][C4Step]_vars

\* C5, for one step: a smtp_dsn_set_orcpt that returns 0 leaves the two fields
\* of the pair, and the required extensions of the session, as they were
C5Step ==
  \A r \in DOMAIN recipients, t \in AddrTypeArgs \ {NULL}, a \in StringArgs \ {NULL} :
    (smtp_dsn_set_orcpt(r, t, a) /\ call'.ret = 0 /\ pc' = "run")
      => /\ recipients'[r].dsn_addrtype = recipients[r].dsn_addrtype
         /\ recipients'[r].dsn_orcpt = recipients[r].dsn_orcpt
         /\ \A s \in DOMAIN sessions :
               sessions'[s].required_extensions = sessions[s].required_extensions

\* C5: smtp_dsn_set_orcpt is all-or-nothing: whenever it fails, whatever the
\* pair held before, the two fields and the session's required extensions are
\* unchanged
C5_OrcptAllOrNothing == [][C5Step]_vars

(* ----------------------- the required extensions ----------------------- *)
\* the session that owns a message, and a recipient
SessionOfMessage(message) == messages[message].session
SessionOfRecipient(recipient) == messages[recipients[recipient].message].session

\* C6, for one step: every bit a session requires before the step, it still
\* requires after it
C6Step ==
  \A s \in DOMAIN sessions \cap DOMAIN sessions' :
    sessions[s].required_extensions \subseteq sessions'[s].required_extensions

\* C6: the required extensions of a session only grow, across every operation,
\* until the session is destroyed
C6_RequiredExtensionsGrow == [][C6Step]_vars

\* no DSN option is set on a message or a recipient of the session
NoDsnOption(session) ==
  /\ \A m \in DOMAIN messages :
        messages[m].session = session
          => messages[m].dsn_ret = Ret_NOTSET /\ messages[m].dsn_envid = NULL
  /\ \A r \in DOMAIN recipients :
        SessionOfRecipient(r) = session
          => /\ recipients[r].dsn_notify = Notify_NOTSET
             /\ recipients[r].dsn_addrtype = NULL
             /\ recipients[r].dsn_orcpt = NULL

\* smtp_dsn_set_ret has put the option of a message back to Ret_NOTSET; no DSN
\* option is left on the session, which still requires DSN
C6_Witness ==
  /\ call.op = "smtp_dsn_set_ret"
  /\ call.on \in DOMAIN messages
  /\ call.ret = 1
  /\ NoDsnOption(SessionOfMessage(call.on))
  /\ EXT_DSN \in sessions[SessionOfMessage(call.on)].required_extensions

\* what C7 says of the DSN and 8BITMIME setters, for one step: a setter that
\* succeeds with a value other than the default makes the owning session
\* require the extension
DsnAnd8bitmimeStep ==
  /\ \A m \in DOMAIN messages, f \in RetArgs \ {Ret_NOTSET} :
        call'.op = "smtp_dsn_set_ret" /\ call'.ret = 1 /\ smtp_dsn_set_ret(m, f)
          => EXT_DSN \in sessions'[SessionOfMessage(m)].required_extensions
  /\ \A m \in DOMAIN messages, e \in StringArgs \ {NULL} :
        call'.op = "smtp_dsn_set_envid" /\ call'.ret = 1 /\ smtp_dsn_set_envid(m, e)
          => EXT_DSN \in sessions'[SessionOfMessage(m)].required_extensions
  /\ \A r \in DOMAIN recipients, f \in NotifyArgs \ {Notify_NOTSET} :
        call'.op = "smtp_dsn_set_notify" /\ call'.ret = 1 /\ smtp_dsn_set_notify(r, f)
          => EXT_DSN \in sessions'[SessionOfRecipient(r)].required_extensions
  /\ \A r \in DOMAIN recipients, t \in AddrTypeArgs \ {NULL}, a \in StringArgs \ {NULL} :
        call'.op = "smtp_dsn_set_orcpt" /\ call'.ret = 1 /\ smtp_dsn_set_orcpt(r, t, a)
          => EXT_DSN \in sessions'[SessionOfRecipient(r)].required_extensions
  /\ \A m \in DOMAIN messages, b \in BodyArgs \ {E8bitmime_NOTSET} :
        call'.op = "smtp_8bitmime_set_body" /\ call'.ret = 1 /\ smtp_8bitmime_set_body(m, b)
          => EXT_8BITMIME \in sessions'[SessionOfMessage(m)].required_extensions

\* the arguments smtp_deliverby_set_mode is given with a mode other than the
\* default
DeliverbyModes == ModeArgs \ {By_NOTSET}

\* C7 as stated, for one step: ... and smtp_deliverby_set_mode makes the
\* session require DELIVERBY
C7StatedStep ==
  /\ DsnAnd8bitmimeStep
  /\ \A m \in DOMAIN messages, t \in TimeArgs, md \in DeliverbyModes, tr \in TraceArgs :
        call'.op = "smtp_deliverby_set_mode" /\ call'.ret = 1
          /\ smtp_deliverby_set_mode(m, t, md, tr)
          => EXT_DELIVERBY \in sessions'[SessionOfMessage(m)].required_extensions

\* C7 as stated: every setter of an option of an extension that succeeds with
\* a value other than the default adds the bit of the extension to the owning
\* session's required extensions: DSN, 8BITMIME and DELIVERBY
C7_EverySetterRequires == [][C7StatedStep]_vars

\* C7 as amended, for one step: ... and smtp_deliverby_set_mode stores its
\* three values and leaves the required extensions of the session as they were
C7AmendedStep ==
  /\ DsnAnd8bitmimeStep
  /\ \A m \in DOMAIN messages, t \in TimeArgs, md \in DeliverbyModes, tr \in TraceArgs :
        call'.op = "smtp_deliverby_set_mode" /\ call'.ret = 1
          /\ smtp_deliverby_set_mode(m, t, md, tr)
          => /\ sessions' = sessions
             /\ messages'[m].by_time = t
             /\ messages'[m].by_mode = md
             /\ messages'[m].by_trace = (IF tr = 0 THEN 0 ELSE 1)

\* C7, amended: the DSN setters and smtp_8bitmime_set_body, when they succeed
\* with a value other than the default, add EXT_DSN and EXT_8BITMIME to the
\* owning session's required extensions; smtp_deliverby_set_mode stores its
\* values and adds nothing
C7_DsnAnd8bitmimeRequire == [][C7AmendedStep]_vars

\* smtp_deliverby_set_mode has succeeded on a message of a session that
\* requires DSN and 8BITMIME, and nothing else
C7_Witness ==
  /\ call.op = "smtp_deliverby_set_mode"
  /\ call.on \in DOMAIN messages
  /\ call.ret = 1
  /\ messages[call.on].by_mode = By_NOTIFY
  /\ sessions[SessionOfMessage(call.on)].required_extensions = {EXT_DSN, EXT_8BITMIME}

\* C8, for one step: on a session with no DSN option, a smtp_dsn_set_envid
\* that succeeds makes the session the message points back to require DSN, and
\* the message's dsn_envid is a block of its own holding the given text
C8Step ==
  \A m \in DOMAIN messages, e \in StringArgs \ {NULL} :
    ( /\ NoDsnOption(SessionOfMessage(m))
      /\ call'.op = "smtp_dsn_set_envid" /\ call'.ret = 1
      /\ smtp_dsn_set_envid(m, e) )
      => /\ EXT_DSN \in sessions'[SessionOfMessage(m)].required_extensions
         /\ messages'[m].dsn_envid \in live' \ live
         /\ strings'[messages'[m].dsn_envid] = Text(e)
         /\ messages' = [messages EXCEPT ![m].dsn_envid = messages'[m].dsn_envid]
         /\ recipients' = recipients

\* C8: with no DSN option set on the session, one successful
\* smtp_dsn_set_envid (message, envid) alone makes the owning session require
\* DSN and stores a copy of envid in the message
C8_EnvidAloneRequiresDsn == [][C8Step]_vars

\* smtp_dsn_set_envid has succeeded; the envelope identifier is the only DSN
\* option of the session, which requires DSN and nothing else
C8_Witness ==
  /\ call.op = "smtp_dsn_set_envid"
  /\ call.on \in DOMAIN messages
  /\ call.ret = 1
  /\ messages[call.on].dsn_envid \in live
  /\ strings[messages[call.on].dsn_envid] = Text(-5)
  /\ messages[call.on].dsn_ret = Ret_NOTSET
  /\ \A r \in DOMAIN recipients :
        /\ recipients[r].dsn_notify = Notify_NOTSET
        /\ recipients[r].dsn_addrtype = NULL
        /\ recipients[r].dsn_orcpt = NULL
  /\ sessions[SessionOfMessage(call.on)].required_extensions = {EXT_DSN}

(* ------------------------------ recipients ----------------------------- *)
\* C9, for one step: smtp_add_recipient (message, NULL) on a message returns
\* NULL, sets the last error to SMTP_ERR_INVAL, and changes neither the
\* message's recipient list, nor any recipient, nor the heap
C9Step ==
  \A m \in DOMAIN messages :
    smtp_add_recipient(m, NULL)
      => /\ call'.ret = NULL
         /\ smtp_errno' = SMTP_ERR_INVAL
         /\ RecipientsOf(m)' = RecipientsOf(m)
         /\ recipients' = recipients
         /\ messages' = messages
         /\ live' = live
         /\ brk' = brk

\* C9: smtp_add_recipient (message, NULL) fails with SMTP_ERR_INVAL, leaves
\* the recipient list as it was, and allocates nothing
C9_NullMailboxRejected == [][C9Step]_vars

\* smtp_add_recipient (message, NULL) has failed on a message that has a
\* recipient
C9_Witness ==
  /\ call.op = "smtp_add_recipient"
  /\ call.on \in DOMAIN messages
  /\ call.ret = NULL
  /\ smtp_errno = SMTP_ERR_INVAL
  /\ RecipientsOf(call.on) # <<>>

(* ------------------------------ DELIVERBY ------------------------------ *)
\* C10, for one step: smtp_deliverby_set_mode on a message returns 0 exactly
\* when the time is out of range or the mode is By_RETURN with a time that is
\* not positive; it then sets SMTP_ERR_INVAL and leaves the message alone
C10Step ==
  \A m \in DOMAIN messages, t \in TimeArgs, md \in ModeArgs, tr \in TraceArgs :
    call'.op = "smtp_deliverby_set_mode" /\ smtp_deliverby_set_mode(m, t, md, tr)
      => /\ (call'.ret = 0)
              <=> (t < -999999999 \/ t > 999999999 \/ (md = By_RETURN /\ t <= 0))
         /\ (call'.ret = 0)
              => /\ smtp_errno' = SMTP_ERR_INVAL
                 /\ messages'[m].by_time = messages[m].by_time
                 /\ messages'[m].by_mode = messages[m].by_mode
                 /\ messages'[m].by_trace = messages[m].by_trace
                 /\ UNCHANGED graphvars

\* C10: smtp_deliverby_set_mode fails with SMTP_ERR_INVAL exactly when time is
\* outside [-999999999, 999999999] or mode is By_RETURN and time <= 0, and a
\* failed call leaves the stored time, mode and trace as they were
C10_DeliverbyGate == [][C10Step]_vars

\* smtp_deliverby_set_mode has failed on a message that holds 120, By_NOTIFY
\* and the trace flag from an earlier call
C10_Witness ==
  /\ call.op = "smtp_deliverby_set_mode"
  /\ call.on \in DOMAIN messages
  /\ call.ret = 0
  /\ smtp_errno = SMTP_ERR_INVAL
  /\ messages[call.on].by_time = 120
  /\ messages[call.on].by_mode = By_NOTIFY
  /\ messages[call.on].by_trace = 1

\* C11, for one step: smtp_deliverby_set_mode on a message, with a time in
\* range and not By_RETURN with a time that is not positive, returns 1 and the
\* message then holds the time, the mode and the trace as 0 or 1, whatever it
\* held; nothing else of the message changes
C11Step ==
  \A m \in DOMAIN messages, t \in TimeArgs, md \in ModeArgs, tr \in TraceArgs :
    ( /\ -999999999 <= t /\ t <= 999999999
      /\ ~(md = By_RETURN /\ t <= 0)
      /\ call'.op = "smtp_deliverby_set_mode"
      /\ smtp_deliverby_set_mode(m, t, md, tr) )
      => /\ call'.ret = 1
         /\ messages'[m] = [messages[m] EXCEPT !.by_time = t,
                                                !.by_mode = md,
                                                !.by_trace = IF tr = 0 THEN 0 ELSE 1]

\* C11: a smtp_deliverby_set_mode that passes the tests of its arguments
\* succeeds and stores exactly time, mode and trace (as a boolean), replacing
\* what an earlier call stored
C11_DeliverbyStores == [][C11Step]_vars

\* smtp_deliverby_set_mode has stored 120, By_NOTIFY and a set trace flag
C11_Witness ==
  /\ call.op = "smtp_deliverby_set_mode"
  /\ call.on \in DOMAIN messages
  /\ call.ret = 1
  /\ messages[call.on].by_time = 120
  /\ messages[call.on].by_mode = By_NOTIFY
  /\ messages[call.on].by_trace = 1

(* ------------------------------- statuses ------------------------------ *)
\* a session is prepared and run, its statuses are read and reset
NextReset ==
  \/ CreateSession \/ AddMessage \/ AddRecipient
  \/ (\E s \in SessionHandles : smtp_set_server(s, -1))
  \/ (\E m \in MessageHandles : smtp_set_messagecb(m, 1, NULL))
  \/ StartSession
  \/ MessageTransferStatus \/ ReversePathStatus \/ MessageResetStatus
  \/ RecipientStatus \/ RecipientCheckComplete \/ RecipientResetStatus

SpecReset == InitPosix /\ [][NextReset]_vars

\* the status that means `not set': no code and an empty text
UnsetStatus == [code |-> 0, text |-> ""]

\* C12, for one step: a reset of a message leaves its two statuses unset, a
\* reset of a recipient leaves its status unset and its completion flag 0;
\* neither changes anything else; and each read returns what is stored
C12Step ==
  /\ \A m \in DOMAIN messages :
        call'.op = "smtp_message_reset_status" /\ smtp_message_reset_status(m)
          => /\ call'.ret = 1
             /\ messages' = [messages EXCEPT
                               ![m].reverse_path_status = UnsetStatus,
                               ![m].message_status = UnsetStatus]
             /\ recipients' = recipients
             /\ sessions' = sessions
  /\ \A r \in DOMAIN recipients :
        call'.op = "smtp_recipient_reset_status" /\ smtp_recipient_reset_status(r)
          => /\ call'.ret = 1
             /\ recipients' = [recipients EXCEPT ![r].status = UnsetStatus,
                                                 ![r].complete = 0]
             /\ messages' = messages
             /\ sessions' = sessions
  /\ \A m \in DOMAIN messages :
        call'.op = "smtp_message_transfer_status" /\ smtp_message_transfer_status(m)
          => call'.status = messages[m].message_status
  /\ \A m \in DOMAIN messages :
        call'.op = "smtp_reverse_path_status" /\ smtp_reverse_path_status(m)
          => call'.status = messages[m].reverse_path_status
  /\ \A r \in DOMAIN recipients :
        call'.op = "smtp_recipient_status" /\ smtp_recipient_status(r)
          => call'.status = recipients[r].status
  /\ \A r \in DOMAIN recipients :
        call'.op = "smtp_recipient_check_complete" /\ smtp_recipient_check_complete(r)
          => call'.ret = recipients[r].complete

\* C12: after a reset, a read returns the unset status whatever the engine
\* wrote: smtp_message_reset_status clears the reverse-path and the transfer
\* status of the message, smtp_recipient_reset_status clears the status and
\* the completion flag of the recipient, and the other entities keep theirs
C12_ResetClears == [][C12Step]_vars

\* after the engine ran, the reverse-path status of a message is read as
\* unset, while a recipient of the message still has the engine's status
C12_Witness ==
  /\ call.op = "smtp_reverse_path_status"
  /\ call.on \in DOMAIN messages
  /\ call.status = UnsetStatus
  /\ messages[call.on].message_status = UnsetStatus
  /\ sessions[SessionOfMessage(call.on)].mta_status # UnsetStatus
  /\ \E r \in DOMAIN recipients :
        /\ recipients[r].message = call.on
        /\ recipients[r].status # UnsetStatus
        /\ recipients[r].complete = 1

(* ------------------------- the enumerated values ----------------------- *)
\* the enumerators of enum ret_flags, enum notify_flags, enum e8bitmime_body
\* and enum by_mode
RetFlags == {Ret_NOTSET, "Ret_FULL", "Ret_HDRS"}
NotifyFlags == {Notify_NOTSET, "Notify_NEVER", "Notify_SUCCESS", "Notify_FAILURE",
                "Notify_DELAY"}
E8bitmimeBodies == {E8bitmime_NOTSET, "E8bitmime_7BIT", "E8bitmime_8BITMIME",
                    "E8bitmime_BINARYMIME"}
ByModes == {By_NOTSET, By_NOTIFY, By_RETURN}

\* the options that take an enumerated value, with every value of an argument
NextEnum ==
  \/ CreateSession \/ AddFewMessages \/ AddRecipient
  \/ DsnSetRet \/ DsnSetNotify \/ E8bitmimeSetBody
  \/ (\E m \in MessageHandles, md \in ModeArgs :
        smtp_deliverby_set_mode(m, 120, md, 1))

SpecEnum == InitPosix /\ [][NextEnum]_vars

\* a call that is refused as C13 says: it returns 0 with SMTP_ERR_INVAL, and
\* neither an option nor a set of required extensions changes
RefusedUnchanged ==
  /\ call'.ret = 0
  /\ smtp_errno' = SMTP_ERR_INVAL
  /\ UNCHANGED graphvars

\* C13, for one step: each of the four setters refuses a value that is not an
\* enumerator of its type
C13Step ==
  /\ \A m \in DOMAIN messages, f \in RetArgs \ RetFlags :
        call'.op = "smtp_dsn_set_ret" /\ smtp_dsn_set_ret(m, f)
          => RefusedUnchanged
  /\ \A r \in DOMAIN recipients, f \in NotifyArgs \ NotifyFlags :
        call'.op = "smtp_dsn_set_notify" /\ smtp_dsn_set_notify(r, f)
          => RefusedUnchanged
  /\ \A m \in DOMAIN messages, b \in BodyArgs \ E8bitmimeBodies :
        call'.op = "smtp_8bitmime_set_body" /\ smtp_8bitmime_set_body(m, b)
          => RefusedUnchanged
  /\ \A m \in DOMAIN messages, t \in TimeArgs, md \in ModeArgs \ ByModes,
        tr \in TraceArgs :
        call'.op = "smtp_deliverby_set_mode" /\ smtp_deliverby_set_mode(m, t, md, tr)
          => RefusedUnchanged

\* C13: smtp_dsn_set_ret, smtp_dsn_set_notify, smtp_8bitmime_set_body and
\* smtp_deliverby_set_mode fail with SMTP_ERR_INVAL on a value outside their
\* enumerated set, leave the stored option unchanged and add no bit to the
\* session's required extensions
C13_OnlyEnumeratedValues == [][C13Step]_vars

(* ------------------------- the hand-off to the engine ------------------ *)
\* the graph after a step is the graph before it, but for the status records
\* and completion flags, which are the engine's to write
OnlyStatusesChange ==
  /\ DOMAIN sessions' = DOMAIN sessions
  /\ DOMAIN messages' = DOMAIN messages
  /\ DOMAIN recipients' = DOMAIN recipients
  /\ \A s \in DOMAIN sessions :
        sessions'[s] = [sessions[s] EXCEPT !.mta_status = sessions'[s].mta_status]
  /\ \A m \in DOMAIN messages :
        messages'[m] =
          [messages[m] EXCEPT !.reverse_path_status = messages'[m].reverse_path_status,
                              !.message_status = messages'[m].message_status]
  /\ \A r \in DOMAIN recipients :
        recipients'[r] = [recipients[r] EXCEPT !.status = recipients'[r].status,
                                               !.complete = recipients'[r].complete]

\* C14, for one step: smtp_start_session on a session with a host, with a
\* local host name set or found by gethostname, and with a callback on every
\* message, enters the engine once and returns what the engine returns; the
\* step is the engine's step and nothing else
C14Step ==
  \A s \in DOMAIN sessions :
    ( /\ sessions[s].host # NULL
      /\ config.HAVE_GETHOSTNAME \/ sessions[s].localhost # NULL
      /\ ~LacksCallback(s)
      /\ call'.op = "smtp_start_session"
      /\ smtp_start_session(s) )
      => /\ call'.engine = 1
         /\ \E r \in {0, 1}, status \in EngineStatus :
               do_session(s, r, status) /\ call'.ret = r
         /\ OnlyStatusesChange
         /\ UNCHANGED <<heapvars, smtp_errno, pc>>

\* C14: when its preconditions hold (trivially so for the callbacks of a
\* session with no message), smtp_start_session calls do_session exactly once
\* on the session and returns its result unchanged, and does not itself
\* modify the graph
C14_StartDelegates == [][C14Step]_vars

\* the engine was entered once, on a session of two messages, and its failure
\* was returned
C14_Witness ==
  /\ call.op = "smtp_start_session"
  /\ call.on \in DOMAIN sessions
  /\ call.engine = 1
  /\ call.ret = 0
  /\ Len(MessagesOf(call.on)) = 2
  /\ sessions[call.on].mta_status.code = 550

(* --------------------------- application data -------------------------- *)
\* two sessions with their messages and recipients, an option, and the
\* application's data on each of them
NextAppData ==
  \/ CreatePeerSessions \/ AddMessage \/ AddRecipient
  \/ (\E m \in MessageHandles : smtp_dsn_set_ret(m, "Ret_FULL"))
  \/ SetApplicationData \/ GetApplicationData
  \/ MessageSetApplicationData \/ MessageGetApplicationData
  \/ RecipientSetApplicationData \/ RecipientGetApplicationData

SpecAppData == InitPosix /\ [][NextAppData]_vars

\* C15, for one step: a set returns the value the entity held and stores the
\* new one in that entity's slot, changing nothing else; a get returns the
\* value the entity holds and changes nothing
C15Step ==
  /\ \A s \in DOMAIN sessions, d \in DataArgs :
        call'.op = "smtp_set_application_data" /\ smtp_set_application_data(s, d)
          => /\ call'.ret = sessions[s].application_data
             /\ sessions' = [sessions EXCEPT ![s].application_data = d]
             /\ UNCHANGED <<messages, recipients, heapvars>>
  /\ \A m \in DOMAIN messages, d \in DataArgs :
        call'.op = "smtp_message_set_application_data"
          /\ smtp_message_set_application_data(m, d)
          => /\ call'.ret = messages[m].application_data
             /\ messages' = [messages EXCEPT ![m].application_data = d]
             /\ UNCHANGED <<sessions, recipients, heapvars>>
  /\ \A r \in DOMAIN recipients, d \in DataArgs :
        call'.op = "smtp_recipient_set_application_data"
          /\ smtp_recipient_set_application_data(r, d)
          => /\ call'.ret = recipients[r].application_data
             /\ recipients' = [recipients EXCEPT ![r].application_data = d]
             /\ UNCHANGED <<sessions, messages, heapvars>>
  /\ \A s \in DOMAIN sessions :
        call'.op = "smtp_get_application_data" /\ smtp_get_application_data(s)
          => call'.ret = sessions[s].application_data /\ UNCHANGED graphvars
  /\ \A m \in DOMAIN messages :
        call'.op = "smtp_message_get_application_data"
          /\ smtp_message_get_application_data(m)
          => call'.ret = messages[m].application_data /\ UNCHANGED graphvars
  /\ \A r \in DOMAIN recipients :
        call'.op = "smtp_recipient_get_application_data"
          /\ smtp_recipient_get_application_data(r)
          => call'.ret = recipients[r].application_data /\ UNCHANGED graphvars

\* C15: on a session, a message and a recipient, the set of the application
\* data returns the value of the previous set on the same entity (NULL if
\* none), a get returns the value last set, each entity has a slot of its own
\* and a set changes no other field
C15_ApplicationDataSwap == [][C15Step]_vars

\* a set on a recipient has returned the value stored before and left NULL,
\* while the recipient's message keeps its own value and the session has none
C15_Witness ==
  /\ call.op = "smtp_recipient_set_application_data"
  /\ call.on \in DOMAIN recipients
  /\ call.ret = 1
  /\ recipients[call.on].application_data = NULL
  /\ messages[recipients[call.on].message].application_data = 1
  /\ sessions[SessionOfRecipient(call.on)].application_data = NULL
  /\ sessions[SessionOfRecipient(call.on)].required_extensions = {EXT_DSN}

(* -------------------------- the order of the frees --------------------- *)
\* the blocks a sequence of accesses frees, in order
RECURSIVE FreesOf(_)
FreesOf(accesses) ==
  IF accesses = <<>> THEN <<>>
  ELSE (IF Head(accesses).ev = "free" THEN <<Head(accesses).at>> ELSE <<>>)
         \o FreesOf(Tail(accesses))

\* in the sequence of frees, a free of the block p comes before each free of
\* q (free (NULL) frees no block; a block that the fields of two structures
\* point to is passed to free once for each of them)
FreedBefore(frees, p, q) ==
  p = NULL \/ \A j \in DOMAIN frees :
                 frees[j] = q => \E i \in 1..(j - 1) : frees[i] = p

\* p is freed by the sequence, unless it is NULL
FreedIfSet(frees, p) == p = NULL \/ \E i \in DOMAIN frees : frees[i] = p

\* C16, for one step: in the frees of a smtp_destroy_session, the strings of
\* a recipient come before the recipient, the recipients of a message and its
\* strings before the message, the strings of the session and its messages
\* before the session, which comes last; and no structure is used once freed
C16Step ==
  \A s \in DOMAIN sessions :
    (call'.op = "smtp_destroy_session" /\ smtp_destroy_session(s))
      => LET frees == call'.freed
             accesses == SessionAccesses(s)
             ms == {m \in DOMAIN messages : messages[m].session = s}
             rs == {r \in DOMAIN recipients : recipients[r].message \in ms}
         IN /\ FreesOf(accesses) = frees
            /\ frees[Len(frees)] = s
            /\ \A p \in {sessions[s].host, sessions[s].localhost} :
                  FreedIfSet(frees, p) /\ FreedBefore(frees, p, s)
            /\ \A m \in ms :
                  /\ FreedIfSet(frees, m) /\ FreedBefore(frees, m, s)
                  /\ \A p \in {messages[m].reverse_path_mailbox, messages[m].dsn_envid} :
                        FreedIfSet(frees, p) /\ FreedBefore(frees, p, m)
            /\ \A r \in rs :
                  /\ FreedIfSet(frees, r)
                  /\ FreedBefore(frees, r, recipients[r].message)
                  /\ \A p \in {recipients[r].mailbox, recipients[r].dsn_addrtype,
                               recipients[r].dsn_orcpt} :
                        FreedIfSet(frees, p) /\ FreedBefore(frees, p, r)
            /\ \A i, j \in DOMAIN accesses :
                  ( /\ i < j
                    /\ accesses[i].ev = "free"
                    /\ accesses[i].at \in {s} \cup ms \cup rs )
                    => accesses[j].at # accesses[i].at

\* C16: smtp_destroy_session frees leaves first (strings before the structure
\* that holds them, recipients before their message, messages before the
\* session, the session last) and reads no structure after freeing it
C16_LeavesFirst == [][C16Step]_vars

\* a session with a message and two recipients has been destroyed: the frees
\* are those of a reverse-path mailbox, of the mailbox of each recipient
\* followed by the recipient, of the message and of the session
C16_Witness ==
  /\ call.op = "smtp_destroy_session"
  /\ call.ret = 1
  /\ DOMAIN sessions = {}
  /\ Len(call.freed) = 7
  /\ call.freed[1] \in StringAddr
  /\ call.freed[2] \in StringAddr /\ call.freed[3] \in StructAddr
  /\ call.freed[4] \in StringAddr /\ call.freed[5] \in StructAddr
  /\ call.freed[6] \in StructAddr
  /\ call.freed[7] = call.on

(* ----------------------- allocation failure in an add ------------------ *)
\* C17, for one step: a smtp_add_message or a smtp_add_recipient (with a
\* mailbox) that returns NULL has set ENOMEM, and has left the graph (so every
\* list, with its tail pointer) and the set of allocated blocks as they were
C17Step ==
  /\ \A s \in DOMAIN sessions :
        ( /\ call'.op = "smtp_add_message" /\ call'.ret = NULL
          /\ smtp_add_message(s) )
          => /\ smtp_errno' = ENOMEM
             /\ MessagesOf(s)' = MessagesOf(s)
             /\ UNCHANGED <<graphvars, live, strings>>
  /\ \A m \in DOMAIN messages, a \in StringArgs \ {NULL} :
        ( /\ call'.op = "smtp_add_recipient" /\ call'.ret = NULL
          /\ smtp_add_recipient(m, a) )
          => /\ smtp_errno' = ENOMEM
             /\ RecipientsOf(m)' = RecipientsOf(m)
             /\ UNCHANGED <<graphvars, live, strings>>

\* C17: when smtp_add_message cannot allocate, or smtp_add_recipient cannot
\* allocate the recipient or the copy of the mailbox, the call returns NULL
\* with ENOMEM, the list is as before and nothing stays allocated
C17_FailedAddChangesNothing == [][C17Step]_vars

\* smtp_add_recipient has failed on the copy of the mailbox and has freed the
\* recipient it had allocated, on a message that has a recipient
C17_Witness ==
  /\ call.op = "smtp_add_recipient"
  /\ call.on \in DOMAIN messages
  /\ call.ret = NULL
  /\ smtp_errno = ENOMEM
  /\ Len(call.freed) = 1
  /\ call.freed[1] \notin live
  /\ Len(RecipientsOf(call.on)) = 1

(* ------------------------ the message callback ------------------------- *)
\* a session whose messages get callbacks, are sent, reset and destroyed
NextCallback ==
  \/ CreateSession \/ AddMessage
  \/ SetMessagecb
  \/ (\E s \in SessionHandles : smtp_set_server(s, -1))
  \/ StartSession
  \/ MessageResetStatus \/ MessageSetApplicationData
  \/ DestroySession

SpecCallback == InitPosix /\ [][NextCallback]_vars

\* C18, for one step: a message that had a callback still has one, if it
\* still exists; and a smtp_set_messagecb with a null callback returns 0 with
\* SMTP_ERR_INVAL and changes no message
C18Step ==
  /\ \A m \in DOMAIN messages \cap DOMAIN messages' :
        messages[m].cb # NULL => messages'[m].cb # NULL
  /\ \A m \in DOMAIN messages, a \in ContextArgs :
        ( /\ call'.op = "smtp_set_messagecb"
          /\ smtp_set_messagecb(m, NULL, a) )
          => /\ call'.ret = 0
             /\ smtp_errno' = SMTP_ERR_INVAL
             /\ messages' = messages

\* C18: once set, the callback of a message stays non-null until the session
\* is destroyed; smtp_set_messagecb with a null callback is refused with
\* SMTP_ERR_INVAL and leaves the callback and its argument as they were
C18_CallbackStaysSet == [][C18Step]_vars

\* smtp_set_messagecb has been refused on a message that has a callback and
\* an argument
C18_Witness ==
  /\ call.op = "smtp_set_messagecb"
  /\ call.on \in DOMAIN messages
  /\ call.ret = 0
  /\ smtp_errno = SMTP_ERR_INVAL
  /\ messages[call.on].cb # NULL
  /\ messages[call.on].cb_arg # NULL

(* -------------------- where a required bit comes from ------------------ *)
\* two sessions, created first, their messages and recipients, the options
\* and the resets
NextExtPeers ==
  \/ CreatePeerSessions
  \/ (\E s \in SessionHandles :
        smtp_add_message(s) /\ Cardinality(DOMAIN sessions) = MaxPeerSessions)
  \/ (\E m \in MessageHandles : smtp_add_recipient(m, -5))
  \/ (\E m \in MessageHandles, f \in {Ret_NOTSET, "Ret_FULL"} :
        smtp_dsn_set_ret(m, f))
  \/ (\E m \in MessageHandles : smtp_dsn_set_envid(m, -5))
  \/ (\E r \in RecipientHandles, f \in {Notify_NOTSET, "Notify_SUCCESS"} :
        smtp_dsn_set_notify(r, f))
  \/ (\E r \in RecipientHandles : smtp_dsn_set_orcpt(r, -6, -5))
  \/ (\E m \in MessageHandles : smtp_size_set_estimate(m, 1000))
  \/ (\E m \in MessageHandles, b \in {E8bitmime_NOTSET, "E8bitmime_8BITMIME"} :
        smtp_8bitmime_set_body(m, b))
  \/ MessageResetStatus \/ RecipientResetStatus

SpecExtPeers == InitPosix /\ [][NextExtPeers]_vars

\* the step is a setter of a DSN option that has returned 1 on a message or
\* a recipient of the session, with a value other than the default stored
DsnSetterOn(session) ==
  /\ call'.ret = 1
  /\ \/ /\ call'.op = "smtp_dsn_set_ret"
        /\ call'.on \in DOMAIN messages
        /\ SessionOfMessage(call'.on) = session
        /\ messages'[call'.on].dsn_ret # Ret_NOTSET
     \/ /\ call'.op = "smtp_dsn_set_envid"
        /\ call'.on \in DOMAIN messages
        /\ SessionOfMessage(call'.on) = session
        /\ messages'[call'.on].dsn_envid # NULL
     \/ /\ call'.op = "smtp_dsn_set_notify"
        /\ call'.on \in DOMAIN recipients
        /\ SessionOfRecipient(call'.on) = session
        /\ recipients'[call'.on].dsn_notify # Notify_NOTSET
     \/ /\ call'.op = "smtp_dsn_set_orcpt"
        /\ call'.on \in DOMAIN recipients
        /\ SessionOfRecipient(call'.on) = session
        /\ recipients'[call'.on].dsn_orcpt # NULL

\* the step is smtp_8bitmime_set_body that has returned 1 on a message of the
\* session, with a body type other than the default stored
E8bitmimeSetterOn(session) ==
  /\ call'.ret = 1
  /\ call'.op = "smtp_8bitmime_set_body"
  /\ call'.on \in DOMAIN messages
  /\ SessionOfMessage(call'.on) = session
  /\ messages'[call'.on].e8bitmime # E8bitmime_NOTSET

\* C19, for one step: a new session requires nothing; a session gets EXT_DSN
\* only from a DSN setter on one of its own messages or recipients, and
\* EXT_8BITMIME only from smtp_8bitmime_set_body on one of its own messages,
\* successful and with a value other than the default; no other bit is ever
\* added; the adds, smtp_size_set_estimate, the resets and every call that
\* returns a failure leave the required extensions of every session alone
C19Step ==
  /\ \A s \in DOMAIN sessions' \ DOMAIN sessions :
        sessions'[s].required_extensions = {}
  /\ \A s \in DOMAIN sessions \cap DOMAIN sessions' :
        LET added == sessions'[s].required_extensions
                       \ sessions[s].required_extensions
        IN  /\ added \subseteq {EXT_DSN, EXT_8BITMIME}
            /\ EXT_DSN \in added => DsnSetterOn(s)
            /\ EXT_8BITMIME \in added => E8bitmimeSetterOn(s)
            /\ ( \/ call'.op \in {"smtp_add_message", "smtp_add_recipient",
                                  "smtp_size_set_estimate",
                                  "smtp_message_reset_status",
                                  "smtp_recipient_reset_status"}
                 \/ call'.ret \in {0, NULL} )
                 => added = {}

\* C19: a session requires DSN only after a DSN setter took effect on one of
\* its own messages or recipients, and 8BITMIME only after
\* smtp_8bitmime_set_body took effect on one of its own messages; a default
\* value, a failed allocation, an add, a size estimate or a reset adds no
\* bit, and no setter changes the set of another session
C19_NoSpuriousBit == [][C19Step]_vars

\* smtp_dsn_set_ret has made the owner of a message require DSN, next to
\* another session that has a message with no option and requires nothing
C19_Witness ==
  /\ call.op = "smtp_dsn_set_ret"
  /\ call.on \in DOMAIN messages
  /\ call.ret = 1
  /\ sessions[SessionOfMessage(call.on)].required_extensions = {EXT_DSN}
  /\ \E s \in DOMAIN sessions \ {SessionOfMessage(call.on)} :
        /\ sessions[s].required_extensions = {}
        /\ \E m \in DOMAIN messages : messages[m].session = s

(* ------------------------ the shape of the graph ----------------------- *)
\* two sessions that are built and destroyed
NextGraph ==
  \/ CreatePeerSessions \/ AddMessage \/ AddRecipient \/ DestroySession

SpecGraph == InitPosix /\ [][NextGraph]_vars

\* the elements of a sequence
Elements(seq) == {seq[i] : i \in 1..Len(seq)}

\* no element occurs twice
NoRepeat(seq) == Cardinality(Elements(seq)) = Len(seq)

\* the list of messages of a session: it ends in a null next pointer without
\* passing a message twice, every message of it points back to the session,
\* and end_messages is its last message; an empty list has a null head
MessageListWellFormed(s) ==
  LET ms == MessagesOf(s)
  IN  IF ms = <<>> THEN sessions[s].messages = NULL
      ELSE /\ NoRepeat(ms)
           /\ messages[ms[Len(ms)]].next = NULL
           /\ sessions[s].end_messages = ms[Len(ms)]
           /\ \A i \in 1..Len(ms) : messages[ms[i]].session = s

\* the same, of the list of recipients of a message
RecipientListWellFormed(m) ==
  LET rs == RecipientsOf(m)
  IN  IF rs = <<>> THEN messages[m].recipients = NULL
      ELSE /\ NoRepeat(rs)
           /\ recipients[rs[Len(rs)]].next = NULL
           /\ messages[m].end_recipients = rs[Len(rs)]
           /\ \A i \in 1..Len(rs) : recipients[rs[i]].message = m

\* C20: before its session is destroyed, every message points back to the
\* session whose list holds it and is in the list of no other session, every
\* recipient points back to the message whose list holds it and is in the
\* list of no other message, no list has a cycle, and the tail pointer of a
\* list that is not empty is its last element
C20_GraphWellFormed ==
  /\ \A s \in DOMAIN sessions : MessageListWellFormed(s)
  /\ \A m \in DOMAIN messages : RecipientListWellFormed(m)
  /\ \A m \in DOMAIN messages :
        /\ messages[m].session \in DOMAIN sessions
        /\ {s \in DOMAIN sessions : m \in Elements(MessagesOf(s))}
             = {messages[m].session}
  /\ \A r \in DOMAIN recipients :
        /\ recipients[r].message \in DOMAIN messages
        /\ {m \in DOMAIN messages : r \in Elements(RecipientsOf(m))}
             = {recipients[r].message}

\* two sessions, each with a message in its list
C20_Witness ==
  /\ call.op = "smtp_add_message"
  /\ call.ret \in DOMAIN messages
  /\ Cardinality(DOMAIN sessions) = 2
  /\ \A s \in DOMAIN sessions : Len(MessagesOf(s)) = 1

=============================================================================
